---- MODULE Spec2Model ----
(***************************************************************************)
(* khinsider downloader: the download pipeline (khinsider/files.py         *)
(* download_many over khinsider/api.py, and the older download_tracks of   *)
(* khinsider.py), the worker pool it runs on, the tenacity retry wrapper   *)
(* and the call cache of khinsider/decorators.py with the CacheManager of  *)
(* khinsider/cache.py under it.                                            *)
(*                                                                         *)
(* The site is the environment: every scraper.get / httpx.get returns a    *)
(* page, times out, is reset, or returns the not-found page.               *)
(***************************************************************************)
EXTENDS Integers, Sequences, FiniteSets, TLC

\* ------------------------------------------------------------------------
\* Bounds of the model
\* ------------------------------------------------------------------------
MaxUrls == 3
MaxTracks == 2
MaxThreads == 2

\* ------------------------------------------------------------------------
\* Urls.  A url is its two captured path segments; the empty slug stands
\* for any string KHINSIDER_URL_REGEX does not match.
\* ------------------------------------------------------------------------
Slugs == {"a", "b"}
TrackNames == <<"t1", "t2", "t3", "t4">>

Url(slug, track) == [slug |-> slug, track |-> track]

BadUrl == Url("", "")

\* The urls a caller may pass at position i: one the regex rejects, an album
\* url, a track url; one album per position.
SlugAt(i) == IF i % 2 = 1 THEN "a" ELSE "b"

InputUrls(i) == {BadUrl, Url(SlugAt(i), ""), Url(SlugAt(i), TrackNames[1])}

\* KHINSIDER_URL_REGEX.match(url): the slug group needs one character at least
url_matches(url) == url.slug # ""

\* parse_khinsider_url: (match[1], match[2] or '')
parse_khinsider_url(url) == <<url.slug, url.track>>

\* ------------------------------------------------------------------------
\* The site.  An album page lists track_count tracks; a page requested
\* under a slug that is no album of the site lists those of DefaultAlbum.
\* ------------------------------------------------------------------------
DefaultAlbum == "a"

SiteAlbum(slug) == IF slug \in Slugs THEN slug ELSE DefaultAlbum

SitePage(slug, n) == [i \in 1..n |-> Url(SiteAlbum(slug), TrackNames[i])]

\* ------------------------------------------------------------------------
\* The retried functions and what one invocation of each can do.
\*   ok        the request returns the page (or the file) asked for
\*   timeout   the request times out
\*   reset     the connection is reset
\*   notfound  the not-found page (or a 404) comes back
\*   nodata    the page comes back without the data looked for
\*   httperror the response carries an error status
\* ------------------------------------------------------------------------
FilesFns == {"get_album", "get_track", "download_track_file"}
ScraperFns == {"scrape_album_page", "scrape_track_page"}
LegacyFns == {"get_track_urls_from_album", "get_track_data", "get_album_data",
              "legacy_download_track_file"}

BodyOutcomes(fn) ==
    CASE fn = "get_album" -> {"ok", "timeout", "reset", "notfound"}
      [] fn = "get_track" -> {"ok", "timeout", "reset", "notfound", "nodata"}
      [] fn = "download_track_file" -> {"ok", "timeout", "reset", "httperror"}
      [] fn = "scrape_album_page" -> {"ok", "timeout", "reset", "notfound", "nodata"}
      [] fn = "scrape_track_page" -> {"ok", "timeout", "reset", "notfound", "nodata"}
      [] fn = "get_track_urls_from_album" -> {"ok", "timeout", "reset", "httperror"}
      [] fn = "get_track_data" -> {"ok", "timeout", "reset", "notfound", "nodata", "httperror"}
      [] fn = "get_album_data" -> {"ok", "timeout", "reset", "notfound", "nodata", "httperror"}
      [] fn = "legacy_download_track_file" -> {"ok", "timeout", "reset", "httperror"}

\* The exception the request of fn raises on outcome o ("none": it returns).
\* requests raises Timeout and ConnectionError, httpx TimeoutException and
\* ReadError; raise_for_status raises on an error status.
RequestRaises(fn, o) ==
    CASE o = "timeout" -> IF fn \in LegacyFns THEN "TimeoutException" ELSE "Timeout"
      [] o = "reset" -> IF fn \in LegacyFns THEN "ReadError" ELSE "ConnectionError"
      [] o = "httperror" -> IF fn \in LegacyFns THEN "HTTPStatusError" ELSE "HTTPError"
      [] OTHER -> "none"

\* khinsider_object_exists / 'No such album' / status 404
ObjectCheckRaises(fn, o) ==
    IF o = "notfound"
    THEN IF fn \in LegacyFns THEN "ItemDoesNotExist" ELSE "ObjectDoesNotExist"
    ELSE "none"

\* What the rest of the body raises on a page without the data: get_track
\* raises ValueError (after it resolved the album), the scraper functions
\* NoRequestedDataInHtml, the older functions fail on the missing tag.
ParseRaises(fn, o) ==
    IF o # "nodata" THEN "none"
    ELSE CASE fn = "get_track" -> "ValueError"
           [] fn = "get_track_data" -> "TypeError"
           [] fn = "get_album_data" -> "AttributeError"
           [] fn \in ScraperFns -> "NoRequestedDataInHtml"
           [] OTHER -> "none"

\* isinstance(exc, cls) for the two classes the retry predicates name
IsInstance(exc, cls) ==
    CASE cls = "Timeout" -> exc = "Timeout"
      [] cls = "RequestError" -> exc \in {"TimeoutException", "ReadError"}
      [] OTHER -> exc = cls

\* A retry predicate that accepts every exception (retry_if_exception_type
\* over Exception): the variant the absent-page properties are measured against.
retry_on_any_exception(fn, exc) == TRUE

\* retry=retry_if_exception_type(...)
RetriedClass(fn) == IF fn \in LegacyFns THEN "RequestError" ELSE "Timeout"

retry_if_exception_type(fn, exc) == IsInstance(exc, RetriedClass(fn))

\* stop=stop_after_attempt(5)
MAX_ATTEMPT_NUMBER == 5

\* A stop condition that lets one attempt more through: the variant the
\* attempt ceiling is measured against.
stop_one_attempt_later(attempt_number) == attempt_number > MAX_ATTEMPT_NUMBER

stop_after_attempt(attempt_number) == attempt_number >= MAX_ATTEMPT_NUMBER

\* tenacity, after an attempt that raised exc: the exception itself when the
\* predicate rejects it, RetryError when the stop condition holds (reraise
\* is not set), "again" otherwise.
RetryDecision(fn, exc, attempt_number) ==
    IF ~retry_if_exception_type(fn, exc) THEN exc
    ELSE IF stop_after_attempt(attempt_number) THEN "RetryError"
    ELSE "again"

\* The exception one invocation of fn's request part raises on outcome o.
AttemptRaises(fn, o) ==
    IF RequestRaises(fn, o) # "none" THEN RequestRaises(fn, o)
    ELSE ObjectCheckRaises(fn, o)

\* Every way a retried call of fn can end from attempt n on: the exception
\* that leaves the wrapper ("none": the call returns) and the outcome of its
\* last request.
RECURSIVE CallResults(_, _)
CallResults(fn, n) ==
    UNION { LET exc == AttemptRaises(fn, o) IN
            IF exc = "none" THEN {[exc |-> "none", out |-> o]}
            ELSE LET d == RetryDecision(fn, exc, n) IN
                 IF d = "again" THEN CallResults(fn, n + 1)
                 ELSE {[exc |-> d, out |-> o]}
          : o \in BodyOutcomes(fn) }

\* Every way a call of fn can end.
ResultsOf == [fn \in FilesFns \cup LegacyFns |-> CallResults(fn, 1)]

\* ------------------------------------------------------------------------
\* State
\* ------------------------------------------------------------------------
VARIABLES
    variant,        \* "files": files.py download_many; "legacy": khinsider.py download_tracks
    urls,           \* the *urls argument
    thread_count,   \* the thread_count argument (max_workers of the pool)
    track_count,    \* the site: how many tracks an album page lists
    pc,             \* where the calling thread is
    url_idx,        \* files: position of `for url in urls`
    sub_idx,        \* position in the list being submitted or collected
    album_urls,     \* legacy: the album urls separate_album_and_track_urls found
    track_urls,     \* the track urls being submitted
    main_op,        \* files: the _fetch_and_download_track call the caller runs itself
    tasks,          \* the futures held: files: download_tasks of the _download call
                    \* under way; legacy: every future submitted, in submission order
    consumed,       \* legacy: the scrape tasks as_completed has handed out
    outcomes,       \* files: the paths the _download call under way has yielded
    yield_count,    \* files: how many values download_many has yielded
    track_total,    \* how many _fetch_and_download_track calls were made or submitted
    exc,            \* the exception leaving the call ("none": none so far)
    cacheTable,     \* CacheManager.__table / the functools.cache of get_album_data
    r_fn,           \* one retried call: the function called ("none": no such call)
    r_valid,        \* one retried call: the url argument matches KHINSIDER_URL_REGEX
    r_pc,           \* one retried call: where tenacity's loop is
    r_attempt,      \* one retried call: retry_state.attempt_number
    r_raised,       \* one retried call: what each attempt raised ("none": it returned)
    r_fetched,      \* one retried call: the requests the latest attempt made
    r_fetches,      \* one retried call: the requests made in all
    r_log,          \* one retried call: the entries log_errors wrote
    r_exc,          \* one retried call: the exception that reached the caller
    cm_lifespan,    \* a CacheManager: __cache_lifespan
    cm_now,         \* a CacheManager: datetime.now()
    cm_table,       \* a CacheManager: __table of the owning process
    cm_ret,         \* a CacheManager: the call made last and what it returned
    gc_table,       \* the collector process: its own __table
    gc_state,       \* the collector process: "off", "sleeping", "due", "exited"
    th,             \* the threads that call one CacheManager at the same time
    mg_use_gc,      \* get_manager: the use_garbage_collector argument
    mg_instance,    \* CacheManager.__instance
    mg_made,        \* how many CacheManager instances were constructed
    mg_attr,        \* __collector_process of every instance
    mg_proc,        \* the collector processes started
    mt,             \* the threads that call get_manager and stop_garbage_collector
    mc,             \* the threads that call a function wrapped by decorators.cache
    m_invoked,      \* how often the wrapped function was invoked, for each argument
    m_returned,     \* the arguments for which a call has returned a result
    u_url,          \* a url string: the argument of parse_khinsider_url
    u_pc,           \* a url string: what has been done with it
    u_pair,         \* a url string: the pair parse_khinsider_url returned
    u_exc,          \* a url string: the exception parse_khinsider_url raised
    u_again,        \* a url string: what parsing the url built from the pair gave
    u_filename,     \* a url string: AudioTrack.filename
    u_path,         \* a url string: file_path of download_track_file
    d_dirs,         \* the directories that exist, of the download root and the album directory
    d_file,         \* for each track file of the album: absent, or its size in chunks
    dw,             \* each worker's position in download_track_file
    d_seen,         \* what a reader of a track file last observed
    p_page,         \* an album page: which of its parts are present
    p_fn,           \* an album page: the function that resolves it
    p_pc,           \* an album page: what has been done with it
    p_album,        \* an album page: the Album the function returned
    p_exc           \* an album page: the exception the function raised

vars == <<variant, urls, thread_count, track_count, pc, url_idx, sub_idx, album_urls,
          track_urls, main_op, tasks, consumed, outcomes, yield_count, track_total, exc,
          cacheTable, r_fn, r_valid, r_pc, r_attempt, r_raised, r_fetched, r_fetches, r_log,
          r_exc, cm_lifespan, cm_now, cm_table, cm_ret, gc_table, gc_state, th, mg_use_gc,
          mg_instance, mg_made, mg_attr, mg_proc, mt, mc, m_invoked, m_returned,
          u_url, u_pc, u_pair, u_exc, u_again, u_filename, u_path, d_dirs, d_file, dw,
          d_seen, p_page, p_fn, p_pc, p_album, p_exc>>

\* the variables of the download calls
download_vars == <<variant, urls, thread_count, track_count, pc, url_idx, sub_idx,
                   album_urls, track_urls, main_op, tasks, consumed, outcomes, yield_count,
                   track_total, exc, cacheTable>>

\* the variables of the single retried call
retry_vars == <<r_fn, r_valid, r_pc, r_attempt, r_raised, r_fetched, r_fetches, r_log, r_exc>>

\* the variables of a CacheManager, its collector process and its callers
cache_vars == <<cm_lifespan, cm_now, cm_table, cm_ret, gc_table, gc_state, th>>

\* the variables of CacheManager.get_manager and stop_garbage_collector
manager_vars == <<mg_use_gc, mg_instance, mg_made, mg_attr, mg_proc, mt>>

\* the variables of the calls of a function wrapped by decorators.cache
memo_vars == <<mc, m_invoked, m_returned>>

\* the variables of one url string
url_vars == <<u_url, u_pc, u_pair, u_exc, u_again, u_filename, u_path>>

\* the variables of the directories and track files of one album
disk_vars == <<d_dirs, d_file, dw, d_seen>>

\* the variables of one album page
page_vars == <<p_page, p_fn, p_pc, p_album, p_exc>>

tail_vars == <<disk_vars, page_vars>>

\* the variables of everything but the download calls, the single retried
\* call and the CacheManager
rest_vars == <<memo_vars, url_vars, tail_vars>>

\* the arguments of the call and the site
args == <<variant, urls, thread_count, track_count>>

\* ------------------------------------------------------------------------
\* The call cache.  api.get_album and api.get_track are wrapped by
\* functools.cache, which keys on the arguments and keeps the result of
\* every call that returned; it is written with the operators of the
\* package's own cache decorator, which does the same for the objects these
\* functions return (an Album, an AudioTrack: never falsy).
\* ------------------------------------------------------------------------
\* A Python value is its type and what str() makes of it.
\* str(obj)
str(obj) == obj.str

\* call_signature = f'{func.__name__}/{args}/{kwargs}': a string
CallSignature(fn, a) == [type |-> "str", str |-> <<fn, a>>]

\* get_object_md5: md5(str(obj).encode()).hexdigest(), one digest per
\* rendering
get_object_md5(obj) == <<"md5", str(obj)>>

\* CacheManager.get_cached_object, as decorators.cache tests it
CacheHit(table, key) == key \in DOMAIN table

\* self.__table[key] = obj
TablePut(table, key, obj) ==
    [k \in DOMAIN table \cup {key} |-> IF k = key THEN obj ELSE table[k]]

\* CacheManager.cache_object(result, key_value=call_signature)
cache_object(table, obj, key_value) == TablePut(table, get_object_md5(key_value), obj)

EmptyTable == [k \in {} |-> {}]

\* ------------------------------------------------------------------------
\* A work item: the function submitted and its two positional arguments
\* (the older fetch_and_download_track takes the url they make up).
\* ------------------------------------------------------------------------
NewTask(entry, arg1, arg2) ==
    [entry |-> entry, album_slug |-> arg1, track_name |-> arg2,
     pc |-> "queued", result |-> "none", page_out |-> "none"]

NoOp == NewTask("none", "", "")

\* What a future keeps of a call that raised e: the exception of a scrape
\* task is raised again by scrape_task.result(); of any other future only
\* `task.exception()` is asked, whether there is one.
Raise(t, e) == IF t.entry = "get_track_urls_from_album" THEN e ELSE "failed"

Failed(t, e, table) ==
    [t |-> [t EXCEPT !.pc = "done", !.result = Raise(t, e), !.page_out = "none"],
     table |-> table, exc |-> e]

Returned(t, table) ==
    [t |-> [t EXCEPT !.pc = "done", !.result = "ok", !.page_out = "none"],
     table |-> table, exc |-> "none"]

\* The future of a fetch_and_download_track call of download_tracks: the
\* call only hands it on, and never asks what became of it.
Ended(t, e, table) ==
    [t |-> [t EXCEPT !.pc = "done", !.result = "ended", !.page_out = "none"],
     table |-> table, exc |-> e]

Moved(t, to, table) ==
    [t |-> [t EXCEPT !.pc = to, !.page_out = "none"], table |-> table, exc |-> "none"]

\* ------------------------------------------------------------------------
\* api.get_album, api.get_track, files._fetch_and_download_track,
\* files.download_track_file
\* ------------------------------------------------------------------------
\* Album(**album_data): slug is the last segment of the url get_album built
Album(slug, n) == [slug |-> slug, track_urls |-> SitePage(slug, n)]

\* def get_track(track_name, album_slug), as a call with two positional
\* arguments binds them
get_track_params(arg1, arg2) == [track_name |-> arg1, album_slug |-> arg2]

\* get_track: url = f'{KHINSIDER_BASE_URL}/game-soundtracks/album/{album_slug}/{track_name}'
TrackPageUrl(p) == Url(p.album_slug, p.track_name)

\* AudioTrack(page_url=url, album=album)
AudioTrack(p, album) == [page_url |-> TrackPageUrl(p), album |-> album]

\* download_track_file: path / track.album.slug / track.filename, the
\* filename being the track segment of the page url (full_unquote changes
\* nothing in the names used here: none carries a percent escape)
FilePath(track) == <<track.album.slug, parse_khinsider_url(track.page_url)[2]>>

\* _fetch_and_download_track: track = get_track(album_slug, track_name)
FilesParams(t) == get_track_params(t.album_slug, t.track_name)

FilesTrackKey(t) == CallSignature("get_track", <<t.album_slug, t.track_name>>)

\* get_track: album = get_album(album_slug)
FilesAlbumKey(t) == CallSignature("get_album", <<FilesParams(t).album_slug>>)

\* get_track after get_album returned: parse_track_data, then the track is
\* built, stored by the cache wrapper and handed to download_track_file.
FinishGetTrack(t, out, table) ==
    IF ParseRaises("get_track", out) # "none"
    THEN Failed(t, ParseRaises("get_track", out), table)
    ELSE Moved(t, "download_track_file",
               cache_object(table,
                            AudioTrack(FilesParams(t), table[get_object_md5(FilesAlbumKey(t))]),
                            FilesTrackKey(t)))

\* The call starts: the cache wrapper of get_track looks the call up.
FilesBegin(t, table) ==
    IF CacheHit(table, get_object_md5(FilesTrackKey(t)))
    THEN Moved(t, "download_track_file", table)
    ELSE Moved(t, "get_track", table)

\* The request the call waits for ends (with its retries); n is the number
\* of tracks the site lists.
FilesEnd(t, table, n) ==
    CASE t.pc = "get_track" ->
            { IF r.exc # "none" THEN Failed(t, r.exc, table)
              ELSE IF CacheHit(table, get_object_md5(FilesAlbumKey(t)))
                   THEN FinishGetTrack(t, r.out, table)
                   ELSE [t |-> [t EXCEPT !.pc = "get_album", !.page_out = r.out],
                         table |-> table, exc |-> "none"]
              : r \in ResultsOf["get_track"] }
      [] t.pc = "get_album" ->
            { IF r.exc # "none" THEN Failed(t, r.exc, table)
              ELSE FinishGetTrack(t, t.page_out,
                                  cache_object(table, Album(FilesParams(t).album_slug, n),
                                               FilesAlbumKey(t)))
              : r \in ResultsOf["get_album"] }
      [] t.pc = "download_track_file" ->
            { IF r.exc # "none" THEN Failed(t, r.exc, table) ELSE Returned(t, table)
              : r \in ResultsOf["download_track_file"] }

\* The path a finished _fetch_and_download_track returns.
FilesResultPath(t, table) == FilePath(table[get_object_md5(FilesTrackKey(t))])

\* ------------------------------------------------------------------------
\* khinsider.py: get_track_urls_from_album, fetch_and_download_track
\* (get_track_data, get_album_data under functools.cache, download_track_file)
\* ------------------------------------------------------------------------
\* get_album_data(url.rsplit('/', maxsplit=1)[0], collect_tracks=False)
LegacyAlbumKey(t) == <<"functools", CallSignature("get_album_data", <<t.album_slug, FALSE>>)>>

LegacyBegin(t, table) ==
    IF t.entry = "get_track_urls_from_album"
    THEN Moved(t, "get_track_urls_from_album", table)
    ELSE Moved(t, "get_track_data", table)

LegacyEnd(t, table) ==
    CASE t.pc = "get_track_urls_from_album" ->
            { IF r.exc # "none" THEN Failed(t, r.exc, table) ELSE Returned(t, table)
              : r \in ResultsOf["get_track_urls_from_album"] }
      [] t.pc = "get_track_data" ->
            { IF r.exc # "none" THEN Ended(t, r.exc, table)
              ELSE IF ParseRaises("get_track_data", r.out) # "none"
                   THEN Ended(t, ParseRaises("get_track_data", r.out), table)
              ELSE IF CacheHit(table, LegacyAlbumKey(t))
                   THEN Moved(t, "legacy_download_track_file", table)
                   ELSE Moved(t, "get_album_data", table)
              : r \in ResultsOf["get_track_data"] }
      [] t.pc = "get_album_data" ->
            { IF r.exc # "none" THEN Ended(t, r.exc, table)
              ELSE IF ParseRaises("get_album_data", r.out) # "none"
                   THEN Ended(t, ParseRaises("get_album_data", r.out), table)
              ELSE Moved(t, "legacy_download_track_file",
                         TablePut(table, LegacyAlbumKey(t), Album(t.album_slug, 0)))
              : r \in ResultsOf["get_album_data"] }
      [] t.pc = "legacy_download_track_file" ->
            { Ended(t, r.exc, table) : r \in ResultsOf["legacy_download_track_file"] }

Begin(t, table) ==
    IF t.entry = "_fetch_and_download_track" THEN FilesBegin(t, table)
    ELSE LegacyBegin(t, table)

End(t, table, n) ==
    IF t.entry = "_fetch_and_download_track" THEN FilesEnd(t, table, n)
    ELSE LegacyEnd(t, table)

\* ------------------------------------------------------------------------
\* The pool (ThreadPoolExecutor(max_workers=thread_count))
\* ------------------------------------------------------------------------
Running(ts) == {i \in 1..Len(ts) : ts[i].pc \notin {"queued", "done"}}

Queued(ts) == {i \in 1..Len(ts) : ts[i].pc = "queued"}

\* A pool that starts a thread for every work item: the variant the
\* concurrency bound is measured against.
WorkerAlwaysIdle(ts, max_workers) == TRUE

\* A pool that keeps one of its workers back: the variant the progress of
\* the work queue is measured against.
WorkerIdleButOne(ts, max_workers) == Cardinality(Running(ts)) < max_workers - 1

\* A worker is free to take the next work item.
WorkerIdle(ts, max_workers) == Cardinality(Running(ts)) < max_workers

\* The work queue is first in, first out.
NextQueued(ts) == CHOOSE i \in Queued(ts) : \A j \in Queued(ts) : i <= j

\* shutdown(wait=False): the variant the join on leaving the with block is
\* measured against.
ShutdownNoWait(ts) == TRUE

\* Executor.__exit__: shutdown(wait=True) returns when every work item ended.
ShutdownDone(ts) == \A i \in 1..Len(ts) : ts[i].pc = "done"

\* A worker takes the oldest queued work item and calls its function.
WorkerStart ==
    /\ Queued(tasks) # {}
    /\ WorkerIdle(tasks, thread_count)
    /\ LET i == NextQueued(tasks)
           b == Begin(tasks[i], cacheTable)
       IN /\ tasks' = [tasks EXCEPT ![i] = b.t]
          /\ cacheTable' = b.table
    /\ UNCHANGED <<rest_vars, retry_vars, cache_vars, manager_vars, args, pc, url_idx, sub_idx, album_urls, track_urls, main_op, consumed,
                   outcomes, yield_count, track_total, exc>>

\* The request a running work item waits for ends.
WorkerStep ==
    \E i \in Running(tasks) :
        \E r \in End(tasks[i], cacheTable, track_count) :
            /\ tasks' = [tasks EXCEPT ![i] = r.t]
            /\ cacheTable' = r.table
            /\ UNCHANGED <<rest_vars, retry_vars, cache_vars, manager_vars, args, pc, url_idx, sub_idx, album_urls, track_urls, main_op,
                           consumed, outcomes, yield_count, track_total, exc>>

\* ------------------------------------------------------------------------
\* files.download_many / files._download, driven to exhaustion by the caller
\* ------------------------------------------------------------------------
\* A submit loop that leaves the last url of the list out: the variant the
\* submission of a whole album is measured against.
SubmitDoneEarly(idx, list) == idx >= Len(list)

\* The submit loop is through with the list.
SubmitDone(idx, list) == idx > Len(list)

\* _download: the argument of get_album(...)
GetAlbumArg(extracted) == extracted[2]

\* `for url in urls`: _download(url, ...) up to its first request
DownloadUrl ==
    /\ variant = "files"
    /\ pc = "loop"
    /\ url_idx <= Len(urls)
    /\ LET url == urls[url_idx]
           extracted == parse_khinsider_url(url)
           key == get_object_md5(CallSignature("get_album", <<GetAlbumArg(extracted)>>))
       IN IF ~url_matches(url)
          THEN /\ exc' = "InvalidUrl"
               /\ pc' = "shutdown"
               /\ UNCHANGED <<main_op, track_urls, sub_idx, track_total>>
          ELSE IF extracted[2] # ""
          THEN /\ main_op' = Begin(NewTask("_fetch_and_download_track", extracted[1],
                                           extracted[2]), cacheTable).t
               /\ track_total' = track_total + 1
               /\ pc' = "track"
               /\ UNCHANGED <<exc, track_urls, sub_idx>>
          ELSE IF CacheHit(cacheTable, key)
          THEN /\ track_urls' = cacheTable[key].track_urls
               /\ sub_idx' = 1
               /\ pc' = "submit"
               /\ UNCHANGED <<exc, main_op, track_total>>
          ELSE /\ pc' = "get_album"
               /\ UNCHANGED <<exc, main_op, track_urls, sub_idx, track_total>>
    /\ UNCHANGED <<rest_vars, retry_vars, cache_vars, manager_vars, args, url_idx, album_urls, tasks, consumed, outcomes, yield_count,
                   cacheTable>>

\* album = get_album(extracted[1]) returns or raises
GetAlbumEnd ==
    /\ variant = "files"
    /\ pc = "get_album"
    /\ LET arg == GetAlbumArg(parse_khinsider_url(urls[url_idx])) IN
       \E r \in ResultsOf["get_album"] :
          IF r.exc = "none"
          THEN /\ cacheTable' = cache_object(cacheTable, Album(arg, track_count),
                                             CallSignature("get_album", <<arg>>))
               /\ track_urls' = Album(arg, track_count).track_urls
               /\ sub_idx' = 1
               /\ pc' = "submit"
               /\ UNCHANGED exc
          ELSE /\ exc' = r.exc
               /\ pc' = "shutdown"
               /\ UNCHANGED <<cacheTable, track_urls, sub_idx>>
    /\ UNCHANGED <<rest_vars, retry_vars, cache_vars, manager_vars, args, url_idx, album_urls, main_op, tasks, consumed, outcomes,
                   yield_count, track_total>>

\* download_tasks = [executor.submit(_fetch_and_download_track,
\*                   *parse_khinsider_url(url), dl_path) for url in album.track_urls]
SubmitTrack ==
    /\ variant = "files"
    /\ pc = "submit"
    /\ IF SubmitDone(sub_idx, track_urls)
       THEN /\ pc' = "collect"
            /\ sub_idx' = 1
            /\ UNCHANGED <<tasks, exc, track_total>>
       ELSE IF ~url_matches(track_urls[sub_idx])
       THEN /\ exc' = "InvalidUrl"
            /\ pc' = "shutdown"
            /\ UNCHANGED <<tasks, sub_idx, track_total>>
       ELSE /\ tasks' = Append(tasks,
                        NewTask("_fetch_and_download_track",
                                parse_khinsider_url(track_urls[sub_idx])[1],
                                parse_khinsider_url(track_urls[sub_idx])[2]))
            /\ track_total' = track_total + 1
            /\ sub_idx' = sub_idx + 1
            /\ UNCHANGED <<pc, exc>>
    /\ UNCHANGED <<rest_vars, retry_vars, cache_vars, manager_vars, args, url_idx, album_urls, track_urls, main_op, consumed, outcomes,
                   yield_count, cacheTable>>

\* yield from (task.result() for task in download_tasks if not task.exception())
Collect ==
    /\ variant = "files"
    /\ pc = "collect"
    /\ IF sub_idx > Len(tasks)
       THEN /\ url_idx' = url_idx + 1
            /\ pc' = "loop"
            /\ tasks' = <<>>
            /\ outcomes' = <<>>
            /\ track_urls' = <<>>
            /\ sub_idx' = 1
            /\ UNCHANGED yield_count
       ELSE /\ tasks[sub_idx].pc = "done"
            /\ IF tasks[sub_idx].result = "ok"
               THEN /\ outcomes' = Append(outcomes, FilesResultPath(tasks[sub_idx], cacheTable))
                    /\ yield_count' = yield_count + 1
               ELSE UNCHANGED <<outcomes, yield_count>>
            /\ sub_idx' = sub_idx + 1
            /\ UNCHANGED <<url_idx, pc, tasks, track_urls>>
    /\ UNCHANGED <<rest_vars, retry_vars, cache_vars, manager_vars, args, album_urls, main_op, consumed, track_total, exc, cacheTable>>

\* yield _fetch_and_download_track(*extracted, path=dl_path), run by the caller
TrackStep ==
    /\ variant = "files"
    /\ pc = "track"
    /\ \E r \in End(main_op, cacheTable, track_count) :
          /\ cacheTable' = r.table
          /\ IF r.t.pc # "done"
             THEN /\ main_op' = r.t
                  /\ UNCHANGED <<pc, url_idx, yield_count, exc>>
             ELSE /\ main_op' = NoOp
                  /\ IF r.t.result = "ok"
                     THEN /\ yield_count' = yield_count + 1
                          /\ url_idx' = url_idx + 1
                          /\ pc' = "loop"
                          /\ UNCHANGED exc
                     ELSE /\ exc' = r.exc
                          /\ pc' = "shutdown"
                          /\ UNCHANGED <<url_idx, yield_count>>
    /\ UNCHANGED <<rest_vars, retry_vars, cache_vars, manager_vars, args, sub_idx, album_urls, track_urls, tasks, consumed, outcomes,
                   track_total>>

\* the for loop is through
LoopEnd ==
    /\ variant = "files"
    /\ pc = "loop"
    /\ url_idx > Len(urls)
    /\ pc' = "shutdown"
    /\ UNCHANGED <<rest_vars, retry_vars, cache_vars, manager_vars, args, url_idx, sub_idx, album_urls, track_urls, main_op, tasks, consumed,
                   outcomes, yield_count, track_total, exc, cacheTable>>

\* the with block is left: the pool is shut down, then the call returns or
\* the exception goes on to the caller
Shutdown ==
    /\ pc = "shutdown"
    /\ ShutdownDone(tasks)
    /\ pc' = IF exc = "none" THEN "returned" ELSE "raised"
    /\ UNCHANGED <<rest_vars, retry_vars, cache_vars, manager_vars, args, url_idx, sub_idx, album_urls, track_urls, main_op, tasks, consumed,
                   outcomes, yield_count, track_total, exc, cacheTable>>

\* ------------------------------------------------------------------------
\* khinsider.py download_tracks
\* ------------------------------------------------------------------------
\* separate_album_and_track_urls: urls the regex rejects are logged and left out
SeparateAlbums(us) == SelectSeq(us, LAMBDA u : url_matches(u) /\ u.track = "")

SeparateTracks(us) == SelectSeq(us, LAMBDA u : url_matches(u) /\ u.track # "")

ScrapeTasks(ts) == {i \in 1..Len(ts) : ts[i].entry = "get_track_urls_from_album"}

\* album_urls, track_urls = separate_album_and_track_urls(urls)
Separate ==
    /\ variant = "legacy"
    /\ pc = "separate"
    /\ album_urls' = SeparateAlbums(urls)
    /\ track_urls' = SeparateTracks(urls)
    /\ sub_idx' = 1
    /\ pc' = "submit_tracks"
    /\ UNCHANGED <<rest_vars, retry_vars, cache_vars, manager_vars, args, url_idx, main_op, tasks, consumed, outcomes, yield_count,
                   track_total, exc, cacheTable>>

\* executor.submit(fetch_and_download_track, url) for url in track_urls, and
\* for url in scrape_task.result()
LegacySubmitTrack ==
    /\ variant = "legacy"
    /\ pc \in {"submit_tracks", "submit_album_tracks"}
    /\ IF SubmitDone(sub_idx, track_urls)
       THEN /\ pc' = IF pc = "submit_tracks" THEN "submit_scrapes" ELSE "as_completed"
            /\ sub_idx' = 1
            /\ UNCHANGED <<tasks, track_total>>
       ELSE /\ tasks' = Append(tasks, NewTask("fetch_and_download_track",
                                              track_urls[sub_idx].slug,
                                              track_urls[sub_idx].track))
            /\ track_total' = track_total + 1
            /\ sub_idx' = sub_idx + 1
            /\ UNCHANGED pc
    /\ UNCHANGED <<rest_vars, retry_vars, cache_vars, manager_vars, args, url_idx, album_urls, track_urls, main_op, consumed, outcomes,
                   yield_count, exc, cacheTable>>

\* executor.submit(get_track_urls_from_album, url) for url in album_urls
SubmitScrape ==
    /\ variant = "legacy"
    /\ pc = "submit_scrapes"
    /\ IF SubmitDone(sub_idx, album_urls)
       THEN /\ pc' = "as_completed"
            /\ UNCHANGED <<tasks, sub_idx>>
       ELSE /\ tasks' = Append(tasks, NewTask("get_track_urls_from_album",
                                              album_urls[sub_idx].slug, ""))
            /\ sub_idx' = sub_idx + 1
            /\ UNCHANGED pc
    /\ UNCHANGED <<rest_vars, retry_vars, cache_vars, manager_vars, args, url_idx, album_urls, track_urls, main_op, consumed, outcomes,
                   yield_count, track_total, exc, cacheTable>>

\* for scrape_task in as_completed(album_scrape_tasks): scrape_task.result()
AsCompleted ==
    /\ variant = "legacy"
    /\ pc = "as_completed"
    /\ IF ScrapeTasks(tasks) \subseteq consumed
       THEN /\ pc' = "shutdown"
            /\ UNCHANGED <<consumed, track_urls, sub_idx, exc>>
       ELSE \E i \in ScrapeTasks(tasks) \ consumed :
               /\ tasks[i].pc = "done"
               /\ consumed' = consumed \cup {i}
               /\ IF tasks[i].result = "ok"
                  THEN /\ track_urls' = SitePage(tasks[i].album_slug, track_count)
                       /\ sub_idx' = 1
                       /\ pc' = "submit_album_tracks"
                       /\ UNCHANGED exc
                  ELSE /\ exc' = tasks[i].result
                       /\ pc' = "shutdown"
                       /\ UNCHANGED <<track_urls, sub_idx>>
    /\ UNCHANGED <<rest_vars, retry_vars, cache_vars, manager_vars, args, url_idx, album_urls, main_op, tasks, outcomes, yield_count,
                   track_total, cacheTable>>

\* ------------------------------------------------------------------------
\* One call of a retried function, attempt by attempt (tenacity's loop
\* around the decorated body)
\* ------------------------------------------------------------------------
\* The functions followed here make one request per invocation.
RetryFns == ScraperFns \cup {"download_track_file", "get_album",
                             "get_track_urls_from_album", "legacy_download_track_file"}

\* The functions decorated with retry_if_timeout.
RetryIfTimeoutFns == ScraperFns \cup {"download_track_file"}

\* scrape_album_page: album_slug = parse_khinsider_url(album_url)[0], ahead
\* of the request
ValidatesUrl(fn) == fn = "scrape_album_page"

\* @retry over @log_errors: the log wrapper sees every attempt;
\* @log_errors over @retry_if_timeout: it sees what leaves the retry wrapper.
LogsEachAttempt(fn) == fn \notin ScraperFns

\* The exception one invocation of the whole body raises on outcome o.
BodyRaises(fn, o) ==
    IF AttemptRaises(fn, o) # "none" THEN AttemptRaises(fn, o) ELSE ParseRaises(fn, o)

Last(s) == s[Len(s)]

\* What the attempt under way does: the exception it raises and the
\* requests it makes.
AttemptRuns(fn, valid) ==
    IF ValidatesUrl(fn) /\ ~valid
    THEN {[exc |-> "InvalidUrl", fetched |-> 0]}
    ELSE {[exc |-> BodyRaises(fn, o), fetched |-> 1] : o \in BodyOutcomes(fn)}

\* tenacity calls the function once more
Attempt ==
    /\ r_pc = "ready"
    /\ \E a \in AttemptRuns(r_fn, r_valid) :
          /\ r_attempt' = r_attempt + 1
          /\ r_raised' = Append(r_raised, a.exc)
          /\ r_fetched' = a.fetched
          /\ r_fetches' = r_fetches + a.fetched
          /\ r_log' = IF a.exc # "none" /\ LogsEachAttempt(r_fn) THEN r_log + 1 ELSE r_log
          /\ r_pc' = IF a.exc = "none" THEN "returned" ELSE "attempt_raised"
    /\ UNCHANGED <<rest_vars, download_vars, cache_vars, manager_vars, r_fn, r_valid, r_exc>>

\* tenacity after an attempt that raised: the retry predicate, then the stop
\* condition
Decide ==
    /\ r_pc = "attempt_raised"
    /\ LET d == RetryDecision(r_fn, Last(r_raised), r_attempt) IN
       IF d = "again"
       THEN /\ r_pc' = "ready"
            /\ UNCHANGED <<r_exc, r_log>>
       ELSE /\ r_pc' = "raised"
            /\ r_exc' = d
            /\ r_log' = IF LogsEachAttempt(r_fn) THEN r_log ELSE r_log + 1
    /\ UNCHANGED <<rest_vars, download_vars, cache_vars, manager_vars, r_fn, r_valid, r_attempt, r_raised, r_fetched, r_fetches>>

\* ------------------------------------------------------------------------
\* CacheManager (khinsider/cache.py): the table, the sweep and the
\* collector process.  Time is counted in hours.
\* ------------------------------------------------------------------------
\* how many collector intervals the clock runs through
MaxTicks == 5

\* DAY_SECONDS = 24 * HOUR_SECONDS
DAY_HOURS == 24

\* CACHE_LIFESPAN_DAYS = 1
CACHE_LIFESPAN_DAYS == 1

\* garbage_collector_interval: int = 6 * HOUR_SECONDS
GC_INTERVAL_HOURS == 6

\* The values stored and used as keys: None, the int 1 and the str '1'.
NoneValue == [type |-> "NoneType", str |-> "None"]
IntOne == [type |-> "int", str |-> "1"]
StrOne == [type |-> "str", str |-> "1"]
Values == {NoneValue, IntOne, StrOne}

\* bool(value)
Truthy(value) == value # NoneValue

\* The handles asked for: those of the values, and one nothing is stored under.
Handles == {get_object_md5(v) : v \in Values} \cup {<<"md5", "2">>}

\* The lifespans a manager is made with: one collector interval, and the
\* default of get_manager, CACHE_LIFESPAN_DAYS * DAY_SECONDS.
Lifespans == {GC_INTERVAL_HOURS, CACHE_LIFESPAN_DAYS * DAY_HOURS}

\* cache_object: if not key_value: key_value = obj
KeyValue(obj, key_value) == IF Truthy(key_value) THEN key_value ELSE obj

\* cache_object: md5_hash = get_object_md5(key_value), which it returns
Handle(obj, key_value) == get_object_md5(KeyValue(obj, key_value))

\* cache_object: self.__table[md5_hash] = obj, datetime.now()
CacheObject(table, obj, key_value, now) ==
    TablePut(table, Handle(obj, key_value), [obj |-> obj, time |-> now])

\* A get_cached_object that hands out the stored pair, not its first item:
\* the variant the read after a put is measured against.
GetCachedPair(table, key) == IF key \notin DOMAIN table THEN NoneValue ELSE table[key]

\* A get_cached_object that leaves out what is older than the lifespan: the
\* variant the unfiltered read is measured against.
GetFreshObject(table, key) ==
    IF key \notin DOMAIN table \/ cm_now - table[key].time >= cm_lifespan
    THEN NoneValue
    ELSE table[key].obj

\* get_cached_object
GetCachedObject(table, key) == IF key \notin DOMAIN table THEN NoneValue ELSE table[key].obj

\* timedelta.seconds: the seconds left over after the whole days
TimedeltaSeconds(delta) == delta % DAY_HOURS

\* A test of age against the collector interval, not the lifespan: the
\* variant the sweep's care for young entries is measured against.
ExpiredAfterInterval(entry, now, lifespan) ==
    TimedeltaSeconds(now - entry.time) >= GC_INTERVAL_HOURS

\* delete_old_cache: (datetime.now() - value[1]).seconds >= self.__cache_lifespan
Expired(entry, now, lifespan) == TimedeltaSeconds(now - entry.time) >= lifespan

\* delete_old_cache, run with nothing else touching the table
DeleteOldCache(table, now, lifespan) ==
    [k \in {j \in DOMAIN table : ~Expired(table[j], now, lifespan)} |-> table[k]]

NoCall == [op |-> "none", key |-> <<"md5", "">>, value |-> NoneValue]

\* cache_manager.cache_object(obj, key_value)
Put ==
    /\ \E obj \in Values, key_value \in Values :
          /\ cm_table' = CacheObject(cm_table, obj, key_value, cm_now)
          /\ cm_ret' = [op |-> "cache_object", key |-> Handle(obj, key_value), value |-> obj]
    /\ UNCHANGED <<rest_vars, download_vars, retry_vars, manager_vars, cm_lifespan, cm_now, gc_table,
                   gc_state, th>>

\* cache_manager.get_cached_object(key)
Get ==
    /\ \E key \in Handles :
          cm_ret' = [op |-> "get_cached_object", key |-> key,
                     value |-> GetCachedObject(cm_table, key)]
    /\ UNCHANGED <<rest_vars, download_vars, retry_vars, manager_vars, cm_lifespan, cm_now, cm_table,
                   gc_table, gc_state, th>>

\* cache_manager.delete_old_cache(), called in the owning process
Sweep ==
    /\ cm_table' = DeleteOldCache(cm_table, cm_now, cm_lifespan)
    /\ cm_ret' = [NoCall EXCEPT !.op = "delete_old_cache"]
    /\ UNCHANGED <<rest_vars, download_vars, retry_vars, manager_vars, cm_lifespan, cm_now, gc_table,
                   gc_state, th>>

\* One collector interval passes; a collector that sleeps wakes up.
TimePasses ==
    /\ cm_now < MaxTicks * GC_INTERVAL_HOURS
    /\ gc_state # "due"
    /\ cm_now' = cm_now + GC_INTERVAL_HOURS
    /\ gc_state' = IF gc_state = "sleeping" THEN "due" ELSE gc_state
    /\ cm_ret' = NoCall
    /\ UNCHANGED <<rest_vars, download_vars, retry_vars, manager_vars, cm_lifespan, cm_table, gc_table,
                   th>>

\* _run_garbage_collector in the process multiprocessing.Process started:
\* self.delete_old_cache() on the table of that process, after the sleep.
\* There is no try around the call: when it raises, the loop and the process
\* end.
CollectorTick ==
    /\ gc_state = "due"
    /\ \E raises \in BOOLEAN :
          IF raises
          THEN /\ gc_state' = "exited"
               /\ UNCHANGED gc_table
          ELSE /\ gc_table' = DeleteOldCache(gc_table, cm_now, cm_lifespan)
               /\ gc_state' = "sleeping"
    /\ cm_ret' = [NoCall EXCEPT !.op = "_run_garbage_collector"]
    /\ UNCHANGED <<rest_vars, download_vars, retry_vars, manager_vars, cm_lifespan, cm_now, cm_table,
                   th>>

\* ------------------------------------------------------------------------
\* Threads that call one CacheManager at the same time, each call followed
\* from one access to the table to the next
\* ------------------------------------------------------------------------
MaxWorkers == 2

Workers == 1..MaxWorkers

NoHandle == <<"md5", "">>

IdleThread ==
    [op |-> "none", pc |-> "idle", obj |-> NoneValue, key_value |-> NoneValue,
     key |-> NoHandle, size |-> 0, visited |-> {}, to_delete |-> {}, value |-> NoneValue,
     exc |-> "none"]

\* self.__table[md5_hash] = obj, datetime.now(): one dict assignment
SetItem(table, key, item) == TablePut(table, key, item)

\* self.__table.pop(key), for a key of the table
PopItem(table, key) == [k \in DOMAIN table \ {key} |-> table[k]]

\* A thread calls cache_object, get_cached_object or delete_old_cache and
\* runs up to its first access to the table; for delete_old_cache that is
\* after the iterator over self.__table.items() is made, which keeps the size
\* of the dict.
Call(w) ==
    /\ th[w].pc = "idle"
    /\ \/ \E obj \in Values, key_value \in Values :
             th' = [th EXCEPT ![w] = [IdleThread EXCEPT !.op = "cache_object", !.pc = "store",
                                                        !.obj = obj, !.key_value = key_value]]
       \/ \E key \in Handles :
             th' = [th EXCEPT ![w] = [IdleThread EXCEPT !.op = "get_cached_object",
                                                        !.pc = "contains", !.key = key]]
       \/ th' = [th EXCEPT ![w] = [IdleThread EXCEPT !.op = "delete_old_cache", !.pc = "scan",
                                                     !.size = Cardinality(DOMAIN cm_table)]]
    /\ UNCHANGED <<rest_vars, download_vars, retry_vars, manager_vars, cm_lifespan, cm_now, cm_table,
                   cm_ret, gc_table, gc_state>>

\* cache_object: the dict assignment, and the return of the handle
Store(w) ==
    /\ th[w].pc = "store"
    /\ cm_table' = SetItem(cm_table, Handle(th[w].obj, th[w].key_value),
                           [obj |-> th[w].obj, time |-> cm_now])
    /\ th' = [th EXCEPT ![w].pc = "done", ![w].key = Handle(th[w].obj, th[w].key_value)]
    /\ UNCHANGED <<rest_vars, download_vars, retry_vars, manager_vars, cm_lifespan, cm_now, cm_ret,
                   gc_table, gc_state>>

\* get_cached_object: if key not in self.__table: return None
Contains(w) ==
    /\ th[w].pc = "contains"
    /\ th' = [th EXCEPT ![w].pc = IF th[w].key \in DOMAIN cm_table THEN "getitem" ELSE "done"]
    /\ UNCHANGED <<rest_vars, download_vars, retry_vars, manager_vars, cm_lifespan, cm_now, cm_table,
                   cm_ret, gc_table, gc_state>>

\* get_cached_object: return self.__table[key][0]
GetItem(w) ==
    /\ th[w].pc = "getitem"
    /\ th' = IF th[w].key \in DOMAIN cm_table
             THEN [th EXCEPT ![w].pc = "done", ![w].value = cm_table[th[w].key].obj]
             ELSE [th EXCEPT ![w].pc = "raised", ![w].exc = "KeyError"]
    /\ UNCHANGED <<rest_vars, download_vars, retry_vars, manager_vars, cm_lifespan, cm_now, cm_table,
                   cm_ret, gc_table, gc_state>>

\* delete_old_cache: the iterator is asked for the next item.  It raises
\* RuntimeError when the size of the dict is not the one it kept; with no
\* item left the loop over to_delete begins.
IterNext(w) ==
    /\ th[w].pc = "scan"
    /\ IF Cardinality(DOMAIN cm_table) # th[w].size
       THEN th' = [th EXCEPT ![w].pc = "raised", ![w].exc = "RuntimeError"]
       ELSE IF DOMAIN cm_table \subseteq th[w].visited
       THEN th' = [th EXCEPT ![w].pc = "pop"]
       ELSE \E k \in DOMAIN cm_table \ th[w].visited :
               th' = [th EXCEPT ![w].visited = @ \cup {k},
                                ![w].to_delete =
                                    IF Expired(cm_table[k], cm_now, cm_lifespan)
                                    THEN @ \cup {k} ELSE @]
    /\ UNCHANGED <<rest_vars, download_vars, retry_vars, manager_vars, cm_lifespan, cm_now, cm_table,
                   cm_ret, gc_table, gc_state>>

\* delete_old_cache: for key in to_delete: self.__table.pop(key)
Pop(w) ==
    /\ th[w].pc = "pop"
    /\ IF th[w].to_delete = {}
       THEN /\ th' = [th EXCEPT ![w].pc = "done"]
            /\ UNCHANGED cm_table
       ELSE \E k \in th[w].to_delete :
               IF k \in DOMAIN cm_table
               THEN /\ cm_table' = PopItem(cm_table, k)
                    /\ th' = [th EXCEPT ![w].to_delete = @ \ {k}]
               ELSE /\ th' = [th EXCEPT ![w].pc = "raised", ![w].exc = "KeyError"]
                    /\ UNCHANGED cm_table
    /\ UNCHANGED <<rest_vars, download_vars, retry_vars, manager_vars, cm_lifespan, cm_now, cm_ret,
                   gc_table, gc_state>>

\* ------------------------------------------------------------------------
\* CacheManager.get_manager and stop_garbage_collector, called by threads:
\* each thread gets the manager, then stops its collector MaxStops times
\* ------------------------------------------------------------------------
MaxStops == 2

\* None, as the value of __instance and of __collector_process
NoRef == 0

NewThread == [pc |-> "get_manager", new |-> NoRef, m |-> NoRef, stops |-> 0, exc |-> "none"]

Extend(f, x, v) == [k \in DOMAIN f \cup {x} |-> IF k = x THEN v ELSE f[k]]

NoMap == [k \in {} |-> NoRef]

\* get_manager: if cls.__instance: return cls.__instance
GmCheck(w) ==
    /\ mt[w].pc = "get_manager"
    /\ mt' = IF mg_instance # NoRef
             THEN [mt EXCEPT ![w].pc = "have", ![w].m = mg_instance]
             ELSE [mt EXCEPT ![w].pc = "construct"]
    /\ UNCHANGED <<rest_vars, download_vars, retry_vars, cache_vars, mg_use_gc, mg_instance, mg_made,
                   mg_attr, mg_proc>>

\* get_manager: cls(lifespan=..., use_garbage_collector=..., ...), that is
\* __init__, which starts the collector process when asked to
GmConstruct(w) ==
    /\ mt[w].pc = "construct"
    /\ mg_made' = mg_made + 1
    /\ mg_attr' = Extend(mg_attr, mg_made + 1, IF mg_use_gc THEN mg_made + 1 ELSE NoRef)
    /\ mg_proc' = IF mg_use_gc THEN Extend(mg_proc, mg_made + 1, "alive") ELSE mg_proc
    /\ mt' = [mt EXCEPT ![w].pc = "assign", ![w].new = mg_made + 1]
    /\ UNCHANGED <<rest_vars, download_vars, retry_vars, cache_vars, mg_use_gc, mg_instance>>

\* get_manager: cls.__instance = <the new manager>
GmAssign(w) ==
    /\ mt[w].pc = "assign"
    /\ mg_instance' = mt[w].new
    /\ mt' = [mt EXCEPT ![w].pc = "return"]
    /\ UNCHANGED <<rest_vars, download_vars, retry_vars, cache_vars, mg_use_gc, mg_made, mg_attr,
                   mg_proc>>

\* get_manager: return cls.__instance
GmReturn(w) ==
    /\ mt[w].pc = "return"
    /\ mt' = [mt EXCEPT ![w].pc = "have", ![w].m = mg_instance]
    /\ UNCHANGED <<rest_vars, download_vars, retry_vars, cache_vars, mg_use_gc, mg_instance, mg_made,
                   mg_attr, mg_proc>>

\* stop_garbage_collector: if not self.__collector_process: ... return
StCheck(w) ==
    /\ mt[w].pc = "have"
    /\ mt[w].stops < MaxStops
    /\ mt' = IF mg_attr[mt[w].m] = NoRef
             THEN [mt EXCEPT ![w].stops = @ + 1]
             ELSE [mt EXCEPT ![w].pc = "terminate"]
    /\ UNCHANGED <<rest_vars, download_vars, retry_vars, cache_vars, mg_use_gc, mg_instance, mg_made,
                   mg_attr, mg_proc>>

\* stop_garbage_collector: self.__collector_process.terminate()
StTerminate(w) ==
    /\ mt[w].pc = "terminate"
    /\ IF mg_attr[mt[w].m] = NoRef
       THEN /\ mt' = [mt EXCEPT ![w].pc = "raised", ![w].exc = "AttributeError"]
            /\ UNCHANGED mg_proc
       ELSE /\ mg_proc' = [mg_proc EXCEPT ![mg_attr[mt[w].m]] = "terminated"]
            /\ mt' = [mt EXCEPT ![w].pc = "join"]
    /\ UNCHANGED <<rest_vars, download_vars, retry_vars, cache_vars, mg_use_gc, mg_instance, mg_made,
                   mg_attr>>

\* stop_garbage_collector: self.__collector_process.join()
StJoin(w) ==
    /\ mt[w].pc = "join"
    /\ mt' = IF mg_attr[mt[w].m] = NoRef
             THEN [mt EXCEPT ![w].pc = "raised", ![w].exc = "AttributeError"]
             ELSE [mt EXCEPT ![w].pc = "clear"]
    /\ UNCHANGED <<rest_vars, download_vars, retry_vars, cache_vars, mg_use_gc, mg_instance, mg_made,
                   mg_attr, mg_proc>>

\* stop_garbage_collector: self.__collector_process = None, and the return
StClear(w) ==
    /\ mt[w].pc = "clear"
    /\ mg_attr' = [mg_attr EXCEPT ![mt[w].m] = NoRef]
    /\ mt' = [mt EXCEPT ![w].pc = "have", ![w].stops = @ + 1]
    /\ UNCHANGED <<rest_vars, download_vars, retry_vars, cache_vars, mg_use_gc, mg_instance, mg_made,
                   mg_proc>>

\* ------------------------------------------------------------------------
\* decorators.cache: a wrapped function of one argument called by several
\* threads, each call followed from the lookup to the return
\* ------------------------------------------------------------------------
\* how many calls one thread makes
MaxCalls == 2

\* The arguments the wrapped function is called with.
MemoArgs == Slugs

\* What one invocation of the wrapped function can do: return an object,
\* return a falsy value, raise.
FuncOutcomes == {"object", "falsy", "raise"}

\* The value the wrapped function returns for arg on outcome o.
FuncResult(arg, o) == IF o = "object" THEN [type |-> "Album", str |-> arg] ELSE NoneValue

\* call_signature = f'{func.__name__}/{args}/{kwargs}'
MemoSignature(arg) == CallSignature("func", <<arg>>)

IdleCaller ==
    [pc |-> "idle", arg |-> "", calls |-> 0, prior |-> FALSE, invoked |-> FALSE,
     result |-> NoneValue, exc |-> "none"]

\* A thread calls the wrapper: cache_manager = CacheManager.get_manager() and
\* the call signature.  prior: a call with this argument has returned a
\* result before this one began.
MemoCall(w) ==
    /\ mc[w].pc = "idle"
    /\ mc[w].calls < MaxCalls
    /\ \E arg \in MemoArgs :
          mc' = [mc EXCEPT ![w] = [IdleCaller EXCEPT !.pc = "lookup", !.arg = arg,
                                                     !.calls = mc[w].calls + 1,
                                                     !.prior = arg \in m_returned]]
    /\ UNCHANGED <<download_vars, retry_vars, cache_vars, manager_vars, m_invoked,
                   m_returned, url_vars, tail_vars>>

\* if cached_value := cache_manager.get_cached_object(...): return
\* cached_value; otherwise func(*args, **kwargs) is entered
MemoLookup(w) ==
    /\ mc[w].pc = "lookup"
    /\ LET cached_value == GetCachedObject(cm_table, get_object_md5(MemoSignature(mc[w].arg)))
       IN IF Truthy(cached_value)
          THEN /\ mc' = [mc EXCEPT ![w].pc = "idle", ![w].result = cached_value]
               /\ m_returned' = m_returned \cup {mc[w].arg}
               /\ UNCHANGED m_invoked
          ELSE /\ mc' = [mc EXCEPT ![w].pc = "running", ![w].invoked = TRUE]
               /\ m_invoked' = [m_invoked EXCEPT ![mc[w].arg] = @ + 1]
               /\ UNCHANGED m_returned
    /\ UNCHANGED <<download_vars, retry_vars, cache_vars, manager_vars, url_vars, tail_vars>>

\* func(*args, **kwargs) ends: it returns its result, or it raises and the
\* exception leaves the wrapper
MemoFinish(w) ==
    /\ mc[w].pc = "running"
    /\ \E o \in FuncOutcomes :
          mc' = IF o = "raise"
                THEN [mc EXCEPT ![w].pc = "idle", ![w].exc = "Exception"]
                ELSE [mc EXCEPT ![w].pc = "store", ![w].result = FuncResult(mc[w].arg, o)]
    /\ UNCHANGED <<download_vars, retry_vars, cache_vars, manager_vars, m_invoked,
                   m_returned, url_vars, tail_vars>>

\* cache_manager.cache_object(result, key_value=call_signature); return result
MemoStore(w) ==
    /\ mc[w].pc = "store"
    /\ cm_table' = CacheObject(cm_table, mc[w].result, MemoSignature(mc[w].arg), cm_now)
    /\ mc' = [mc EXCEPT ![w].pc = "idle"]
    /\ m_returned' = m_returned \cup {mc[w].arg}
    /\ UNCHANGED <<download_vars, retry_vars, manager_vars, cm_lifespan, cm_now, cm_ret,
                   gc_table, gc_state, th, m_invoked, url_vars, tail_vars>>

\* ------------------------------------------------------------------------
\* Urls as strings: KHINSIDER_URL_REGEX, parse_khinsider_url, full_unquote,
\* AudioTrack.filename and the file path of download_track_file.
\* A string is a sequence of characters; a url is the text ahead of the slug
\* and the characters after it.
\* ------------------------------------------------------------------------
\* how many pieces a generated string is made of
MaxPieces == 4

RECURSIVE Flatten(_)
Flatten(ss) == IF ss = <<>> THEN <<>> ELSE Head(ss) \o Flatten(Tail(ss))

PieceStrings(pieces, n) == UNION {{Flatten(ps) : ps \in [1..k -> pieces]} : k \in 0..n}

\* The pieces of the urls parsed: a letter, the slash, a blank, the percent
\* sign and the two digits that make %25 with it.
UrlPieces == {<<"x">>, <<"/">>, <<" ">>, <<"%">>, <<"2", "5">>}

\* The pieces of track names: a letter, a dot, the percent sign and the digit
\* pairs that make %25 (the percent sign), %20 (the blank) and %2F (the
\* slash) with it.
NamePieces == {<<"x">>, <<".">>, <<"%">>, <<"2", "5">>, <<"2", "0">>, <<"2", "F">>}

\* "album": the url begins with
\* https://downloads.khinsider.com/game-soundtracks/album/ ; "other": it
\* begins with something else (another path of the site, another scheme).
UrlString(base, rest) == [base |-> base, rest |-> rest]

\* ALBUM_BASE_URL/<slug>[/<track_name>]
AlbumBaseUrl(slug, track_name) ==
    UrlString("album", IF track_name = <<>> THEN slug ELSE slug \o <<"/">> \o track_name)

UrlInputs == {UrlString(b, r) : b \in {"album", "other"}, r \in PieceStrings(UrlPieces, MaxPieces)}

\* the page urls get_track builds for the track names generated
TrackPageUrls == {AlbumBaseUrl(<<"x">>, n) : n \in PieceStrings(NamePieces, MaxPieces)}

\* [^\s/]
SegmentChar(c) == c \notin {" ", "/"}

\* [^\s/]+, greedy: how many characters of s it takes from position i on
RECURSIVE Run(_, _)
Run(s, i) == IF i <= Len(s) /\ SegmentChar(s[i]) THEN 1 + Run(s, i + 1) ELSE 0

\* the value of a group that took no part in the match
NoGroup == <<"None">>

\* KHINSIDER_URL_REGEX.match(url): the literal text, ([^\s/]+), \/? and
\* ([^\s/]+)? from the start of the string, nothing asked of what follows
RegexMatch(url) ==
    LET r == url.rest
        n1 == Run(r, 1)
        j == IF n1 + 1 <= Len(r) /\ r[n1 + 1] = "/" THEN n1 + 2 ELSE n1 + 1
        n2 == Run(r, j)
    IN IF url.base # "album" \/ n1 = 0
       THEN [matched |-> FALSE, g1 |-> <<>>, g2 |-> NoGroup, end |-> 0]
       ELSE [matched |-> TRUE, g1 |-> SubSeq(r, 1, n1),
             g2 |-> IF n2 = 0 THEN NoGroup ELSE SubSeq(r, j, j + n2 - 1),
             end |-> j + n2 - 1]

\* the byte a %XX escape stands for, for the escapes the names generated hold
Unhex(d1, d2) ==
    CASE <<d1, d2>> = <<"2", "5">> -> "%"
      [] <<d1, d2>> = <<"2", "0">> -> " "
      [] <<d1, d2>> = <<"2", "F">> -> "/"
      [] OTHER -> "?"

HexDigit(c) == c \in {"0", "2", "5", "F"}

\* urllib.parse.unquote: every %XX is replaced, once, from left to right
RECURSIVE unquote(_)
unquote(s) ==
    IF s = <<>> THEN <<>>
    ELSE IF Len(s) >= 3 /\ s[1] = "%" /\ HexDigit(s[2]) /\ HexDigit(s[3])
    THEN <<Unhex(s[2], s[3])>> \o unquote(SubSeq(s, 4, Len(s)))
    ELSE <<s[1]>> \o unquote(Tail(s))

\* for _ in range(quote_layers): string = unquote(string)
RECURSIVE unquote_layers(_, _)
unquote_layers(string, quote_layers) ==
    IF quote_layers = 0 THEN string ELSE unquote_layers(unquote(string), quote_layers - 1)

\* quote_layers: int = 2
QUOTE_LAYERS == 2

\* A full_unquote that applies unquote once more: the variant the number of
\* passes is measured against.
full_unquote_thrice(string) == unquote_layers(string, QUOTE_LAYERS + 1)

\* full_unquote(string)
full_unquote(string) == unquote_layers(string, QUOTE_LAYERS)

\* A parse_khinsider_url that hands out the segments unquoted: the variant
\* the round trip is measured against.
ParseDecoded(url) ==
    LET match == RegexMatch(url) IN
    IF ~match.matched THEN [exc |-> "InvalidUrl", pair |-> <<>>]
    ELSE [exc |-> "none",
          pair |-> <<unquote(match.g1), IF match.g2 = NoGroup THEN <<>> ELSE unquote(match.g2)>>]

\* parse_khinsider_url, on a string
ParseKhinsiderUrl(url) ==
    LET match == RegexMatch(url) IN
    IF ~match.matched THEN [exc |-> "InvalidUrl", pair |-> <<>>]
    ELSE [exc |-> "none",
          pair |-> <<match.g1, IF match.g2 = NoGroup THEN <<>> ELSE match.g2>>]

\* The components of a path given as a string, as pathlib keeps them: empty
\* ones and '.' are dropped, '..' stays.
RECURSIVE PathParts(_, _)
PathParts(s, part) ==
    LET kept == IF part \in {<<>>, <<".">>} THEN <<>> ELSE <<part>> IN
    IF s = <<>> THEN kept
    ELSE IF Head(s) = "/" THEN kept \o PathParts(Tail(s), <<>>)
    ELSE PathParts(Tail(s), Append(part, Head(s)))

\* path / track.album.slug / track.filename: a component that begins with a
\* slash replaces everything ahead of it
JoinPath(slug, filename) ==
    IF filename # <<>> /\ Head(filename) = "/"
    THEN [root |-> "/", parts |-> PathParts(filename, <<>>)]
    ELSE [root |-> "path", parts |-> PathParts(slug, <<>>) \o PathParts(filename, <<>>)]

NoPath == [root |-> "", parts |-> <<>>]

\* parse_khinsider_url(url) is called
Parse ==
    /\ u_pc = "input"
    /\ LET p == ParseKhinsiderUrl(u_url) IN
       /\ u_exc' = p.exc
       /\ u_pair' = p.pair
       /\ u_pc' = IF p.exc = "none" THEN "parsed" ELSE "raised"
    /\ UNCHANGED <<download_vars, retry_vars, cache_vars, manager_vars, memo_vars, tail_vars, u_url,
                   u_again, u_filename, u_path>>

\* The url is built again from the pair, ALBUM_BASE_URL/<slug>[/<track_name>],
\* and parsed.
Rebuild ==
    /\ u_pc = "parsed"
    /\ u_again' = ParseKhinsiderUrl(AlbumBaseUrl(u_pair[1], u_pair[2]))
    /\ u_pc' = "reparsed"
    /\ UNCHANGED <<download_vars, retry_vars, cache_vars, manager_vars, memo_vars, tail_vars, u_url,
                   u_pair, u_exc, u_filename, u_path>>

\* AudioTrack.filename: full_unquote(parse_khinsider_url(self.page_url)[1])
Filename ==
    /\ u_pc = "parsed"
    /\ u_filename' = full_unquote(u_pair[2])
    /\ u_pc' = "named"
    /\ UNCHANGED <<download_vars, retry_vars, cache_vars, manager_vars, memo_vars, tail_vars, u_url,
                   u_pair, u_exc, u_again, u_path>>

\* download_track_file: file_path = path / track.album.slug / track.filename
FilePathOf ==
    /\ u_pc = "named"
    /\ u_path' = JoinPath(u_pair[1], u_filename)
    /\ u_pc' = "file_path"
    /\ UNCHANGED <<download_vars, retry_vars, cache_vars, manager_vars, memo_vars, tail_vars, u_url,
                   u_pair, u_exc, u_again, u_filename>>


\* ------------------------------------------------------------------------
\* The directories and the track files of one album: download_track_file
\* called by several workers, and a reader of the files
\* ------------------------------------------------------------------------
\* the length of response.content, in chunks handed to the file one at a time
MaxChunks == 2

\* the file names of the album's tracks
DiskFiles == {"01.mp3", "02.mp3"}

\* A directory is the sequence of its path components below the working
\* directory, which exists: dl_path and dl_path / track.album.slug.
WorkingDir == <<>>

DlPath == <<"path">>

AlbumDir == <<"path", "slug">>

Parent(dir) == IF dir = <<>> THEN dir ELSE SubSeq(dir, 1, Len(dir) - 1)

IsDir(dirs, dir) == dir = WorkingDir \/ dir \in dirs

\* os.mkdir(dir): what it raises, or "ok"
os_mkdir(dirs, dir) ==
    IF IsDir(dirs, dir) THEN "FileExistsError"
    ELSE IF ~IsDir(dirs, Parent(dir)) THEN "FileNotFoundError"
    ELSE "ok"

\* a call of Path.mkdir that raises when the directory exists
MkdirCallStrict(dir) ==
    [dir |-> dir, parents |-> TRUE, exist_ok |-> FALSE, at |-> "os_mkdir"]

\* dir.mkdir(parents=True, exist_ok=True)
MkdirCall(dir) ==
    [dir |-> dir, parents |-> TRUE, exist_ok |-> TRUE, at |-> "os_mkdir"]

AbsentFile == [exists |-> FALSE, size |-> 0]

CompleteFile == [exists |-> TRUE, size |-> MaxChunks]

NoSeen == [file |-> "", exists |-> FALSE, size |-> 0, writing |-> FALSE]

IdleWorker ==
    [pc |-> "idle", file |-> "", stack |-> <<>>, written |-> 0, fresh |-> FALSE,
     hit |-> {}, exc |-> "none"]

Larger(a, b) == IF a > b THEN a ELSE b

\* the files some worker has opened for writing and not closed
BeingWritten == {dw[w].file : w \in {v \in Workers : dw[v].pc \in {"write", "close"}}}

\* A call of Path.mkdir has returned: the caller goes on.
AfterMkdir(rec, rest) ==
    IF rest # <<>> THEN [rec EXCEPT !.stack = rest]
    ELSE IF rec.pc = "dl_mkdir"
    THEN [rec EXCEPT !.pc = "parent_mkdir", !.stack = <<MkdirCall(AlbumDir)>>]
    ELSE [rec EXCEPT !.pc = "open", !.stack = <<>>]

\* A worker starts: _download (dl_path.mkdir, then download_track_file for
\* the track of the url) or download_track_file itself.
StartDownload(w) ==
    /\ dw[w].pc = "idle"
    /\ \E f \in DiskFiles, entry \in {"_download", "download_track_file"} :
          dw' = [dw EXCEPT ![w] =
                    [IdleWorker EXCEPT
                        !.pc = IF entry = "_download" THEN "dl_mkdir" ELSE "parent_mkdir",
                        !.file = f,
                        !.fresh = (d_dirs = {}),
                        !.stack = IF entry = "_download" THEN <<MkdirCall(DlPath)>>
                                  ELSE <<MkdirCall(AlbumDir)>>]]
    /\ UNCHANGED <<download_vars, retry_vars, cache_vars, manager_vars, memo_vars, url_vars,
                   page_vars, d_dirs, d_file, d_seen>>

\* Path.mkdir: os.mkdir(self, mode), and what follows each of its outcomes
MkdirOs(w) ==
    /\ dw[w].pc \in {"dl_mkdir", "parent_mkdir"}
    /\ LET rec == dw[w]
           n == Len(rec.stack)
           top == rec.stack[n]
           rest == SubSeq(rec.stack, 1, n - 1)
           r == os_mkdir(d_dirs, top.dir)
       IN  /\ top.at = "os_mkdir"
           /\ CASE r = "ok" ->
                     /\ d_dirs' = d_dirs \cup {top.dir}
                     /\ dw' = [dw EXCEPT ![w] = AfterMkdir(rec, rest)]
                [] r = "FileNotFoundError" ->
                     /\ UNCHANGED d_dirs
                     /\ IF ~top.parents \/ Parent(top.dir) = top.dir
                        THEN dw' = [dw EXCEPT ![w].pc = "raised", ![w].stack = <<>>,
                                              ![w].exc = r]
                        ELSE dw' = [dw EXCEPT ![w].stack =
                                       rest \o <<[top EXCEPT !.parents = FALSE],
                                                 MkdirCall(Parent(top.dir))>>]
                [] r = "FileExistsError" ->
                     /\ UNCHANGED d_dirs
                     /\ IF ~top.exist_ok
                        THEN dw' = [dw EXCEPT ![w].pc = "raised", ![w].stack = <<>>,
                                              ![w].exc = r]
                        ELSE dw' = [dw EXCEPT ![w].stack = rest \o <<[top EXCEPT !.at = "is_dir"]>>,
                                              ![w].hit = @ \cup {top.dir}]
    /\ UNCHANGED <<download_vars, retry_vars, cache_vars, manager_vars, memo_vars, url_vars,
                   page_vars, d_file, d_seen>>

\* Path.mkdir after an OSError: if not exist_ok or not self.is_dir(): raise
MkdirIsDir(w) ==
    /\ dw[w].pc \in {"dl_mkdir", "parent_mkdir"}
    /\ LET rec == dw[w]
           n == Len(rec.stack)
           top == rec.stack[n]
           rest == SubSeq(rec.stack, 1, n - 1)
       IN  /\ top.at = "is_dir"
           /\ IF IsDir(d_dirs, top.dir)
              THEN dw' = [dw EXCEPT ![w] = AfterMkdir(rec, rest)]
              ELSE dw' = [dw EXCEPT ![w].pc = "raised", ![w].stack = <<>>,
                                    ![w].exc = "FileExistsError"]
    /\ UNCHANGED <<download_vars, retry_vars, cache_vars, manager_vars, memo_vars, url_vars,
                   page_vars, d_dirs, d_file, d_seen>>

\* file_path.open('wb'): the file is created, or emptied if it exists
OpenFile(w) ==
    /\ dw[w].pc = "open"
    /\ IF IsDir(d_dirs, AlbumDir)
       THEN /\ d_file' = [d_file EXCEPT ![dw[w].file] = [exists |-> TRUE, size |-> 0]]
            /\ dw' = [dw EXCEPT ![w].pc = "write"]
       ELSE /\ dw' = [dw EXCEPT ![w].pc = "raised", ![w].exc = "FileNotFoundError"]
            /\ UNCHANGED d_file
    /\ UNCHANGED <<download_vars, retry_vars, cache_vars, manager_vars, memo_vars, url_vars,
                   page_vars, d_dirs, d_seen>>

\* f.write(response.content): one more chunk of the content reaches the file
WriteChunk(w) ==
    /\ dw[w].pc = "write"
    /\ LET n == dw[w].written + 1 IN
       /\ d_file' = [d_file EXCEPT ![dw[w].file].size = Larger(@, n)]
       /\ dw' = [dw EXCEPT ![w].written = n,
                           ![w].pc = IF n = MaxChunks THEN "close" ELSE "write"]
    /\ UNCHANGED <<download_vars, retry_vars, cache_vars, manager_vars, memo_vars, url_vars,
                   page_vars, d_dirs, d_seen>>

\* the with block ends: the file is closed, file_path is returned
CloseFile(w) ==
    /\ dw[w].pc = "close"
    /\ dw' = [dw EXCEPT ![w].pc = "done"]
    /\ UNCHANGED <<download_vars, retry_vars, cache_vars, manager_vars, memo_vars, url_vars,
                   page_vars, d_dirs, d_file, d_seen>>

\* A reader opens the final path of a track and reads what is there.
ReadFile(f) ==
    /\ d_seen' = [file |-> f, exists |-> d_file[f].exists, size |-> d_file[f].size,
                  writing |-> f \in BeingWritten]
    /\ UNCHANGED <<download_vars, retry_vars, cache_vars, manager_vars, memo_vars, url_vars,
                   page_vars, d_dirs, d_file, dw>>

\* ------------------------------------------------------------------------
\* One album page resolved by scrape_album_page or by get_album
\* ------------------------------------------------------------------------
\* An album page is described by the parts of it the parsers look for:
\* the 'Ooops!' marker, the h2 title, the year, the type, the album images,
\* the song list and the publisher.
PageParts == {"ooops", "title", "year", "type", "art", "tracks", "publisher"}

Pages == [PageParts -> BOOLEAN]

NoPage == [part \in PageParts |-> FALSE]

PageFunctions == {"scrape_album_page", "get_album"}

\* what a function that found no value keeps: None
NoneStr == "None"

NoAlbum ==
    [kind |-> "None", name |-> NoneStr, year |-> NoneStr, type |-> NoneStr, art |-> <<>>,
     track_urls |-> <<>>, publisher |-> NoneStr]

\* a text of the page, or None where the page has none
TextOf(page, part) == IF page[part] THEN part ELSE NoneStr

\* the urls of a list of the page, empty where the page has none
ListOf(page, part) == IF page[part] THEN <<part>> ELSE <<>>

\* validators.khinsider_object_exists
khinsider_object_exists(page) == IF page["ooops"] THEN "ObjectDoesNotExist" ELSE "none"

\* scrape_album_page._parse_album_html: the AlbumPageJson, or the exception
parse_album_html(page) ==
    IF ~page["title"]
    THEN [exc |-> "NoRequestedDataInHtml", album |-> NoAlbum]
    ELSE [exc |-> "none",
          album |-> [kind |-> "AlbumPageJson",
                     name |-> TextOf(page, "title"),
                     year |-> TextOf(page, "year"),
                     type |-> TextOf(page, "type"),
                     art |-> ListOf(page, "art"),
                     track_urls |-> ListOf(page, "tracks"),
                     publisher |-> TextOf(page, "publisher")]]

\* parser.parse_album_data, and the Album api.get_album builds from it
parse_album_data(page) ==
    [exc |-> "none",
     album |-> [kind |-> "Album",
                name |-> TextOf(page, "title"),
                year |-> TextOf(page, "year"),
                type |-> TextOf(page, "type"),
                art |-> ListOf(page, "art"),
                track_urls |-> ListOf(page, "tracks"),
                publisher |-> TextOf(page, "publisher")]]

ParsePageBy(fn, page) ==
    IF fn = "scrape_album_page" THEN parse_album_html(page) ELSE parse_album_data(page)

\* scraper.get(url), khinsider_object_exists(response)
FetchPage ==
    /\ p_pc = "input"
    /\ LET e == khinsider_object_exists(p_page) IN
       /\ p_exc' = e
       /\ p_pc' = IF e = "none" THEN "fetched" ELSE "raised"
    /\ UNCHANGED <<download_vars, retry_vars, cache_vars, manager_vars, memo_vars, url_vars,
                   disk_vars, p_page, p_fn, p_album>>

\* The page is parsed: the function returns its result or raises.
ParsePage ==
    /\ p_pc = "fetched"
    /\ LET r == ParsePageBy(p_fn, p_page) IN
       /\ p_exc' = r.exc
       /\ p_album' = r.album
       /\ p_pc' = IF r.exc = "none" THEN "returned" ELSE "raised"
    /\ UNCHANGED <<download_vars, retry_vars, cache_vars, manager_vars, memo_vars, url_vars,
                   disk_vars, p_page, p_fn>>
\* ------------------------------------------------------------------------
\* Specification of the two download calls
\* ------------------------------------------------------------------------
UrlLists == UNION {{us \in [1..k -> UNION {InputUrls(i) : i \in 1..k}] :
                        \A i \in 1..k : us[i] \in InputUrls(i)} : k \in 0..MaxUrls}

\* no download call
DownloadOff ==
    /\ variant = "none"
    /\ urls = <<>>
    /\ thread_count = 1
    /\ track_count = 0
    /\ pc = "off"
    /\ url_idx = 1
    /\ sub_idx = 1
    /\ album_urls = <<>>
    /\ track_urls = <<>>
    /\ main_op = NoOp
    /\ tasks = <<>>
    /\ consumed = {}
    /\ outcomes = <<>>
    /\ yield_count = 0
    /\ track_total = 0
    /\ exc = "none"
    /\ cacheTable = EmptyTable

\* no single retried call
RetryOff ==
    /\ r_fn = "none"
    /\ r_valid = TRUE
    /\ r_pc = "off"
    /\ r_attempt = 0
    /\ r_raised = <<>>
    /\ r_fetched = 0
    /\ r_fetches = 0
    /\ r_log = 0
    /\ r_exc = "none"

\* no CacheManager followed
CacheOff ==
    /\ cm_lifespan = 0
    /\ cm_now = 0
    /\ cm_table = EmptyTable
    /\ cm_ret = NoCall
    /\ gc_table = EmptyTable
    /\ gc_state = "off"
    /\ th = [w \in Workers |-> IdleThread]

\* no get_manager call
ManagerOff ==
    /\ mg_use_gc = FALSE
    /\ mg_instance = NoRef
    /\ mg_made = 0
    /\ mg_attr = NoMap
    /\ mg_proc = NoMap
    /\ mt = [w \in Workers |-> NewThread]

\* no call of a function wrapped by decorators.cache
MemoOff ==
    /\ mc = [w \in Workers |-> IdleCaller]
    /\ m_invoked = [a \in MemoArgs |-> 0]
    /\ m_returned = {}

\* no url string followed
UrlOff ==
    /\ u_url = UrlString("other", <<>>)
    /\ u_pc = "off"
    /\ u_pair = <<>>
    /\ u_exc = "none"
    /\ u_again = [exc |-> "none", pair |-> <<>>]
    /\ u_filename = <<>>
    /\ u_path = NoPath

\* no worker writes a track file
DiskOff ==
    /\ d_dirs = {}
    /\ d_file = [f \in DiskFiles |-> AbsentFile]
    /\ dw = [w \in Workers |-> IdleWorker]
    /\ d_seen = NoSeen

\* no album page resolved
PageOff ==
    /\ p_page = NoPage
    /\ p_fn = "none"
    /\ p_pc = "off"
    /\ p_album = NoAlbum
    /\ p_exc = "none"

RestOff ==
    /\ MemoOff
    /\ UrlOff
    /\ DiskOff
    /\ PageOff

Init ==
    /\ variant \in {"files", "legacy"}
    /\ urls \in UrlLists
    /\ thread_count \in 1..MaxThreads
    /\ track_count \in 0..MaxTracks
    /\ pc = IF variant = "files" THEN "loop" ELSE "separate"
    /\ url_idx = 1
    /\ sub_idx = 1
    /\ album_urls = <<>>
    /\ track_urls = <<>>
    /\ main_op = NoOp
    /\ tasks = <<>>
    /\ consumed = {}
    /\ outcomes = <<>>
    /\ yield_count = 0
    /\ track_total = 0
    /\ exc = "none"
    /\ cacheTable = EmptyTable
    /\ RetryOff
    /\ CacheOff
    /\ ManagerOff
    /\ RestOff

Next ==
    \/ DownloadUrl
    \/ GetAlbumEnd
    \/ SubmitTrack
    \/ Collect
    \/ TrackStep
    \/ LoopEnd
    \/ Separate
    \/ LegacySubmitTrack
    \/ SubmitScrape
    \/ AsCompleted
    \/ Shutdown
    \/ WorkerStart
    \/ WorkerStep

Spec == Init /\ [][Next]_vars

\* ------------------------------------------------------------------------
\* Specification of files.download_many alone
\* ------------------------------------------------------------------------
InitFiles ==
    /\ Init
    /\ variant = "files"

NextFiles ==
    \/ DownloadUrl
    \/ GetAlbumEnd
    \/ SubmitTrack
    \/ Collect
    \/ TrackStep
    \/ LoopEnd
    \/ Shutdown
    \/ WorkerStart
    \/ WorkerStep

SpecFiles == InitFiles /\ [][NextFiles]_vars

\* ------------------------------------------------------------------------
\* Specification of one retried call
\* ------------------------------------------------------------------------
InitRetry ==
    /\ DownloadOff
    /\ CacheOff
    /\ ManagerOff
    /\ RestOff
    /\ r_fn \in RetryFns
    /\ r_valid \in (IF ValidatesUrl(r_fn) THEN BOOLEAN ELSE {TRUE})
    /\ r_pc = "ready"
    /\ r_attempt = 0
    /\ r_raised = <<>>
    /\ r_fetched = 0
    /\ r_fetches = 0
    /\ r_log = 0
    /\ r_exc = "none"

NextRetry ==
    \/ Attempt
    \/ Decide

SpecRetry == InitRetry /\ [][NextRetry]_vars

\* ------------------------------------------------------------------------
\* Specification of one CacheManager used by its owning process, with the
\* collector process beside it
\* ------------------------------------------------------------------------
InitCache ==
    /\ DownloadOff
    /\ RetryOff
    /\ ManagerOff
    /\ RestOff
    /\ cm_lifespan \in Lifespans
    /\ cm_now = 0
    /\ cm_table = EmptyTable
    /\ cm_ret = NoCall
    /\ gc_table = EmptyTable
    /\ gc_state \in {"off", "sleeping"}
    /\ th = [w \in Workers |-> IdleThread]

NextCache ==
    \/ Put
    \/ Get
    \/ Sweep
    \/ TimePasses
    \/ CollectorTick

SpecCache == InitCache /\ [][NextCache]_vars

\* ------------------------------------------------------------------------
\* Specification of one CacheManager called by several threads at once
\* ------------------------------------------------------------------------
\* The table holds nothing, or one entry stored a collector interval ago.
InitThreads ==
    /\ DownloadOff
    /\ RetryOff
    /\ ManagerOff
    /\ RestOff
    /\ cm_lifespan = GC_INTERVAL_HOURS
    /\ cm_now = GC_INTERVAL_HOURS
    /\ cm_table \in {EmptyTable, CacheObject(EmptyTable, StrOne, NoneValue, 0)}
    /\ cm_ret = NoCall
    /\ gc_table = EmptyTable
    /\ gc_state = "off"
    /\ th = [w \in Workers |-> IdleThread]

NextThreads ==
    \E w \in Workers :
        \/ Call(w)
        \/ Store(w)
        \/ Contains(w)
        \/ GetItem(w)
        \/ IterNext(w)
        \/ Pop(w)

SpecThreads == InitThreads /\ [][NextThreads]_vars

\* ------------------------------------------------------------------------
\* Specification of get_manager and stop_garbage_collector called by
\* several threads at once
\* ------------------------------------------------------------------------
InitManager ==
    /\ DownloadOff
    /\ RetryOff
    /\ CacheOff
    /\ RestOff
    /\ mg_use_gc \in BOOLEAN
    /\ mg_instance = NoRef
    /\ mg_made = 0
    /\ mg_attr = NoMap
    /\ mg_proc = NoMap
    /\ mt = [w \in Workers |-> NewThread]

NextManager ==
    \E w \in Workers :
        \/ GmCheck(w)
        \/ GmConstruct(w)
        \/ GmAssign(w)
        \/ GmReturn(w)
        \/ StCheck(w)
        \/ StTerminate(w)
        \/ StJoin(w)
        \/ StClear(w)

SpecManager == InitManager /\ [][NextManager]_vars

\* ------------------------------------------------------------------------
\* Specification of a function wrapped by decorators.cache, called by
\* several threads
\* ------------------------------------------------------------------------
InitMemo ==
    /\ DownloadOff
    /\ RetryOff
    /\ CacheOff
    /\ ManagerOff
    /\ MemoOff
    /\ UrlOff
    /\ DiskOff
    /\ PageOff

NextMemo ==
    \E w \in Workers :
        \/ MemoCall(w)
        \/ MemoLookup(w)
        \/ MemoFinish(w)
        \/ MemoStore(w)

SpecMemo == InitMemo /\ [][NextMemo]_vars

\* ------------------------------------------------------------------------
\* Specification of parse_khinsider_url, AudioTrack.filename and the file
\* path, applied to one url string
\* ------------------------------------------------------------------------
InitUrl ==
    /\ DownloadOff
    /\ RetryOff
    /\ CacheOff
    /\ ManagerOff
    /\ MemoOff
    /\ DiskOff
    /\ PageOff
    /\ u_url \in UrlInputs \cup TrackPageUrls
    /\ u_pc = "input"
    /\ u_pair = <<>>
    /\ u_exc = "none"
    /\ u_again = [exc |-> "none", pair |-> <<>>]
    /\ u_filename = <<>>
    /\ u_path = NoPath

NextUrl ==
    \/ Parse
    \/ Rebuild
    \/ Filename
    \/ FilePathOf

SpecUrl == InitUrl /\ [][NextUrl]_vars


\* ------------------------------------------------------------------------
\* Specification of the directories and track files of one album, written
\* by several workers and read by a reader
\* ------------------------------------------------------------------------
InitDisk ==
    /\ DownloadOff
    /\ RetryOff
    /\ CacheOff
    /\ ManagerOff
    /\ MemoOff
    /\ UrlOff
    /\ PageOff
    /\ d_dirs \in {{}, {DlPath}, {DlPath, AlbumDir}}
    /\ d_file \in [DiskFiles -> {AbsentFile, CompleteFile}]
    /\ AlbumDir \notin d_dirs => d_file = [f \in DiskFiles |-> AbsentFile]
    /\ dw = [w \in Workers |-> IdleWorker]
    /\ d_seen = NoSeen

NextDisk ==
    \E w \in Workers :
        \/ StartDownload(w)
        \/ MkdirOs(w)
        \/ MkdirIsDir(w)
        \/ OpenFile(w)
        \/ WriteChunk(w)
        \/ CloseFile(w)

SpecDisk == InitDisk /\ [][NextDisk]_vars

\* the same with a reader of the track files
NextRead ==
    \/ NextDisk
    \/ \E f \in DiskFiles : ReadFile(f)

SpecRead == InitDisk /\ [][NextRead]_vars

\* ------------------------------------------------------------------------
\* Specification of one album page resolved by scrape_album_page or get_album
\* ------------------------------------------------------------------------
InitPage ==
    /\ DownloadOff
    /\ RetryOff
    /\ CacheOff
    /\ ManagerOff
    /\ MemoOff
    /\ UrlOff
    /\ DiskOff
    /\ p_page \in Pages
    /\ p_fn \in PageFunctions
    /\ p_pc = "input"
    /\ p_album = NoAlbum
    /\ p_exc = "none"

NextPage ==
    \/ FetchPage
    \/ ParsePage

SpecPage == InitPage /\ [][NextPage]_vars

\* ------------------------------------------------------------------------
\* Specification of termination: either files.download_many driven to its
\* end by the caller, or one retried call followed attempt by attempt.
\* Every request returns or fails, the threads of the pool run, and the
\* caller keeps asking the iterator for its next value: a step that can be
\* taken is taken in the end.
\* ------------------------------------------------------------------------
InitTerm ==
    \/ InitFiles
    \/ InitRetry

NextTerm ==
    \/ NextFiles
    \/ NextRetry

SpecTerm == InitTerm /\ [][NextTerm]_vars /\ WF_vars(NextFiles) /\ WF_vars(NextRetry)
\* ========================================================================
\* Properties
\* ========================================================================

\* C1: in download_many the failure of one track's download (a standalone
\* track url as much as a track of an album) never makes the call raise: the
\* call is never left with an exception while the url it stopped at is a
\* track url.
C1_TrackFailureDoesNotRaise ==
    (variant = "files" /\ pc = "raised" /\ url_idx <= Len(urls))
        => ~(url_matches(urls[url_idx]) /\ urls[url_idx].track # "")

\* C2: in download_many a failure to resolve one album reference stays with
\* that reference and the call does not raise: the call is never left with
\* an exception while the url it stopped at is an album url.
C2_AlbumFailureDoesNotRaise ==
    (variant = "files" /\ pc = "raised" /\ url_idx <= Len(urls))
        => ~(url_matches(urls[url_idx]) /\ urls[url_idx].track = "")

\* C3: download_many produces exactly one outcome per track: when the call
\* has returned, it has yielded as many values as track downloads were made
\* or submitted, a failed one included.
C3_OneOutcomePerTrack ==
    (variant = "files" /\ pc = "returned") => yield_count = track_total

\* C4: during a download_many call with thread_count = K at most K track
\* fetch/download operations are active at once, the download the caller
\* runs for a standalone track url counted with the pool's work items.
C4_AtMostKActive ==
    variant = "files" =>
        Cardinality(Running(tasks)) + (IF main_op.pc \notin {"queued", "done"} THEN 1 ELSE 0)
            <= thread_count

\* C4 witness: the pool is full and a submitted work item waits in the queue.
C4_PoolFullAndWaiting ==
    /\ variant = "files"
    /\ Cardinality(Running(tasks)) = thread_count
    /\ Queued(tasks) # {}

\* C5: when a url passed to download_many is not a valid url, InvalidUrl is
\* raised before any track download is submitted or made and before any
\* album page is fetched, wherever the url stands in the list.
C5_InvalidUrlBeforeAnyWork ==
    (variant = "files" /\ exc = "InvalidUrl")
        => (track_total = 0 /\ cacheTable = EmptyTable)

\* C6: for inputs [album A, album B, ...] to download_many, when the call
\* turns to B (its page is about to be or is being resolved) every track of
\* A has been submitted to the pool.
C6_TracksSubmittedOnResolve ==
    ( /\ variant = "files"
      /\ Len(urls) >= 2
      /\ url_matches(urls[1]) /\ urls[1].track = ""
      /\ url_matches(urls[2]) /\ urls[2].track = ""
      /\ url_idx = 2
      /\ pc \in {"loop", "get_album"} )
        => track_total = track_count

\* C6 witness: the call turns to album B after the two tracks of A.
C6_SecondAlbumReached ==
    /\ variant = "files"
    /\ Len(urls) >= 2
    /\ url_matches(urls[1]) /\ urls[1].track = ""
    /\ url_matches(urls[2]) /\ urls[2].track = ""
    /\ url_idx = 2
    /\ pc = "loop"
    /\ track_count = 2
    /\ track_total = 2

\* C7: when download_many is exhausted, and when download_tracks returns or
\* raises, every work item submitted to the pool has finished; download_many
\* lets go of the futures of an album only when each of them has finished.
C7_AllTasksFinished ==
    /\ [](pc \in {"returned", "raised"} => \A i \in 1..Len(tasks) : tasks[i].pc = "done")
    /\ [][Len(tasks') < Len(tasks) => \A i \in 1..Len(tasks) : tasks[i].pc = "done"]_vars

\* C7 witness: download_tracks has returned and holds two futures at least.
C7_ReturnedWithFutures ==
    /\ variant = "legacy"
    /\ pc = "returned"
    /\ Len(tasks) >= 2

C9_AbsentOrMalformedNotRetried ==
    r_fn \in RetryIfTimeoutFns =>
        \A i \in 1..Len(r_raised) :
            r_raised[i] \in {"ObjectDoesNotExist", "InvalidUrl", "NoRequestedDataInHtml"}
                => /\ i = Len(r_raised)
                   /\ r_pc \in {"attempt_raised", "raised"}
                   /\ r_pc = "raised" => r_exc = r_raised[i]
                   /\ r_fetched = (IF r_raised[i] = "InvalidUrl" THEN 0 ELSE 1)

\* C9 witness: scrape_album_page called with a url the regex rejects has
\* raised InvalidUrl to its caller.
C9_InvalidUrlRaised ==
    /\ r_fn = "scrape_album_page"
    /\ r_pc = "raised"
    /\ r_exc = "InvalidUrl"
    /\ r_attempt = 1

\* C9 as stated: the error reaches the caller after one attempt that made
\* one fetch.
C9_OneAttemptOneFetch ==
    (r_fn \in RetryIfTimeoutFns /\ r_pc = "raised"
        /\ r_exc \in {"ObjectDoesNotExist", "InvalidUrl", "NoRequestedDataInHtml"})
        => (r_raised[r_attempt] = r_exc /\ r_fetched = 1)

\* C10: when all 5 attempts of a retried function of the package fail with a
\* timeout, the exception that reaches the caller is the timeout of the last
\* attempt, not a wrapper around it.
C10_LastErrorUnchanged ==
    (r_fn \in RetryFns \ LegacyFns /\ r_pc = "raised" /\ r_attempt = 5
        /\ r_raised[r_attempt] = "Timeout")
        => r_exc = r_raised[r_attempt]

\* C11: every failed attempt of a function wrapped by retry_if_timeout, the
\* intermediate ones as well as the last, leaves one error log entry of
\* log_errors: once tenacity has dealt with an attempt, the entries written
\* are as many as the attempts that raised.
C11_EveryFailedAttemptLogged ==
    (r_fn \in RetryIfTimeoutFns /\ r_pc \in {"ready", "returned", "raised"})
        => r_log = Cardinality({i \in 1..Len(r_raised) : r_raised[i] # "none"})


\* C12: get_cached_object on the handle cache_object just returned gives
\* the object that was stored, whatever the object, and get_cached_object on
\* a handle the table does not hold (so on one never stored) gives None.
C12_GetAfterPut ==
    /\ cm_ret.op = "cache_object" => GetCachedObject(cm_table, cm_ret.key) = cm_ret.value
    /\ (cm_ret.op = "get_cached_object" /\ cm_ret.key \notin DOMAIN cm_table)
           => cm_ret.value = NoneValue

\* C12 happens: cache_object(1) has just returned the handle of 1, with
\* another entry in the table beside it.
C12_PutReturned ==
    /\ cm_ret.op = "cache_object"
    /\ cm_ret.value = IntOne
    /\ cm_ret.key = get_object_md5(IntOne)
    /\ Cardinality(DOMAIN cm_table) = 2

\* C13: once delete_old_cache has run, no entry is left whose age, now
\* minus the time it was stored, is the lifespan or more; this for the
\* default lifespan of one day and for ages of a day and more as well.
C13_SweepRemovesEveryOldEntry ==
    cm_ret.op = "delete_old_cache"
        => \A k \in DOMAIN cm_table : cm_now - cm_table[k].time < cm_lifespan

\* C14: with the collector started, once a collector tick has run, the
\* table get_cached_object reads in the owning process holds no entry the
\* sweep counts as expired: the tick removed it from that same table.
C14_TickSweepsOwnersTable ==
    (cm_ret.op = "_run_garbage_collector" /\ gc_state = "sleeping")
        => \A k \in DOMAIN cm_table : ~Expired(cm_table[k], cm_now, cm_lifespan)

\* C15: get_cached_object does not look at the age: whatever the table holds
\* under the handle is what a read returns, an entry older than the lifespan
\* that no sweep has removed included.
C15_ReadIgnoresAge ==
    (cm_ret.op = "get_cached_object" /\ cm_ret.key \in DOMAIN cm_table)
        => cm_ret.value = cm_table[cm_ret.key].obj

\* C15 happens: a read has returned the object of an entry that is older
\* than the lifespan.
C15_StaleEntryReturned ==
    /\ cm_ret.op = "get_cached_object"
    /\ cm_ret.key \in DOMAIN cm_table
    /\ cm_now - cm_table[cm_ret.key].time > cm_lifespan
    /\ cm_ret.value = IntOne

\* C19: a sweep tick that fails does not end the sweeping: a collector that
\* was started is asleep or due for its next tick, never gone, as long as
\* nobody stops it.
C19_FailedTickKeepsCollector ==
    gc_state # "exited"

\* C16: when every worker has called cache_object and all the calls have
\* returned, workers that gave distinct key values (the object itself where
\* no key value was given) hold distinct handles, every handle is in the
\* table, the handles are as many as the distinct key values, and a handle
\* only one worker wrote under reads back that worker's object.
C16_DistinctKeysDistinctHandles ==
    (\A w \in Workers : th[w].op = "cache_object" /\ th[w].pc = "done")
        => /\ \A v, w \in Workers :
                 KeyValue(th[v].obj, th[v].key_value) # KeyValue(th[w].obj, th[w].key_value)
                     => th[v].key # th[w].key
           /\ {th[w].key : w \in Workers} \subseteq DOMAIN cm_table
           /\ Cardinality({th[w].key : w \in Workers})
                  = Cardinality({KeyValue(th[w].obj, th[w].key_value) : w \in Workers})
           /\ \A w \in Workers :
                 (\A v \in Workers \ {w} : th[v].key # th[w].key)
                     => GetCachedObject(cm_table, th[w].key) = th[w].obj

\* C20: no call of cache_object, get_cached_object or delete_old_cache made
\* while other threads call the same manager raises.
C20_NoCallRaises ==
    \A w \in Workers : th[w].exc = "none"

\* C17: stop_garbage_collector raises nothing, also when several threads
\* call it at once, and when a thread is back from it no collector process
\* of the manager it called is alive.
C17_StopRaisesNothing ==
    \A w \in Workers :
        /\ mt[w].exc = "none"
        /\ (mt[w].pc = "have" /\ mt[w].stops > 0 /\ mt[w].m \in DOMAIN mg_proc)
               => mg_proc[mt[w].m] # "alive"

\* C18: whatever the interleaving of the get_manager calls, one CacheManager
\* is constructed at most, so at most one collector process is started, and
\* every call returns the one instance.
C18_OneInstance ==
    /\ mg_made <= 1
    /\ Cardinality(DOMAIN mg_proc) <= 1
    /\ \A v, w \in Workers : (mt[v].m # NoRef /\ mt[w].m # NoRef) => mt[v].m = mt[w].m

\* C21: a call of the wrapped function that began after a call with the same
\* argument had returned a result does not invoke the function; and a call
\* that did not invoke the function was served a result an earlier call had
\* returned, so a call that raised left nothing to serve.
C21_SecondCallServed ==
    \A w \in Workers :
        (mc[w].pc = "idle" /\ mc[w].calls > 0)
            => /\ mc[w].prior => ~mc[w].invoked
               /\ (~mc[w].invoked /\ mc[w].exc = "none") => mc[w].arg \in m_returned

\* C22: two calls with the same argument are never both inside the wrapped
\* function: the second waits for, or is served, the result of the first.
C22_OneFetchInFlight ==
    \A v, w \in Workers :
        (v # w /\ mc[v].pc = "running" /\ mc[w].pc = "running") => mc[v].arg # mc[w].arg

\* C23: download_many has fetched the page of an album before it submits the
\* tasks of its tracks, so no task of a track fetches an album page: the
\* get_album call inside get_track is served from the cache.
C23_NoAlbumFetchInTrackTask ==
    variant = "files" => \A i \in 1..Len(tasks) : tasks[i].pc # "get_album"

\* C24: for a url parse_khinsider_url accepts, the url built again from the
\* pair it returned parses to the same pair, and the two segments of the pair
\* are the characters of the url as they stand, percent escapes included.
C24_ParseRoundTrip ==
    u_pc = "reparsed"
        => /\ u_again = [exc |-> "none", pair |-> u_pair]
           /\ u_pair[1] = SubSeq(u_url.rest, 1, Len(u_pair[1]))
           /\ u_pair[2] = <<>>
                \/ u_pair[2] = SubSeq(u_url.rest, Len(u_pair[1]) + 2,
                                      Len(u_pair[1]) + 1 + Len(u_pair[2]))

\* C24 happens: a url with a percent escape in its track name was parsed,
\* built again and parsed again.
C24_EscapedUrlReparsed ==
    /\ u_pc = "reparsed"
    /\ u_pair = << <<"x">>, <<"%", "2", "5">> >>

\* C25: parse_khinsider_url raises InvalidUrl for every url that is not the
\* album path followed by a slug, or by a slug, a slash and a track name (a
\* slash may end the url): once it was called on another url, one without
\* blanks, InvalidUrl was raised.
C25_MalformedUrlRaises ==
    LET r == u_url.rest
        Segment(s) == s # <<>> /\ \A i \in 1..Len(s) : SegmentChar(s[i])
        Shaped == /\ u_url.base = "album"
                  /\ \E i \in 1..Len(r) :
                        /\ Segment(SubSeq(r, 1, i))
                        /\ \/ i = Len(r)
                           \/ /\ r[i + 1] = "/"
                              /\ i + 1 = Len(r) \/ Segment(SubSeq(r, i + 2, Len(r)))
    IN (u_pc \notin {"off", "input"} /\ (\A i \in 1..Len(r) : r[i] # " ") /\ ~Shaped)
           => u_exc = "InvalidUrl"

\* C26: the file name of a track is the track name of its page url after
\* two unquote passes, no fewer and no more: %2520 gives the blank, and
\* %252520 gives %20.
C26_TwoUnquotePasses ==
    u_pc \in {"named", "file_path"}
        => /\ u_filename = unquote(unquote(u_pair[2]))
           /\ u_pair[2] = <<"%", "2", "5", "2", "0">> => u_filename = <<" ">>
           /\ u_pair[2] = <<"%", "2", "5", "2", "5", "2", "0">>
                  => u_filename = <<"%", "2", "0">>

\* C26 happens: the file name of a track whose name is encoded three times
\* was computed.
C26_TripleEncodedNamed ==
    /\ u_pc = "named"
    /\ u_pair[2] = <<"%", "2", "5", "2", "5", "2", "0">>
    /\ u_filename = <<"%", "2", "0">>

\* C27: the file path of a track reference is the path of no other
\* reference: a track of the same album with another track name is written
\* to another path.
C27_DistinctRefsDistinctPaths ==
    (u_pc = "file_path" /\ u_pair[2] # <<>>)
        => \A n \in PieceStrings(NamePieces, MaxPieces) :
              n # u_pair[2] => JoinPath(u_pair[1], full_unquote(n)) # u_path

\* C28: a reader that opens a track's final path while download_track_file
\* is writing it finds the file absent or complete, never a partial file.
C28_ReaderNeverSeesPartialFile ==
    d_seen.writing => (~d_seen.exists \/ d_seen.size = MaxChunks)

\* C29: workers that create the download root and the album directory at the
\* same time all succeed: no mkdir raises, whether the directory exists already
\* or is created by another worker meanwhile, and both directories exist once
\* a worker is past its mkdir calls.
C29_ConcurrentMkdirSucceeds ==
    \A w \in Workers :
        /\ dw[w].exc = "none"
        /\ dw[w].pc # "raised"
        /\ dw[w].pc = "parent_mkdir" /\ dw[w].hit # {} => IsDir(d_dirs, DlPath)
        /\ dw[w].pc \in {"open", "write", "close", "done"} => {DlPath, AlbumDir} \subseteq d_dirs

\* Two workers that started when no directory existed have both written their
\* files, and one of them found a directory made by the other meanwhile.
C29_RacedWorkersDone ==
    \E v, w \in Workers :
        /\ v # w
        /\ dw[v].pc = "done" /\ dw[w].pc = "done"
        /\ dw[v].fresh /\ dw[w].fresh
        /\ AlbumDir \in dw[w].hit

\* C30: an album page without a title makes scrape_album_page and get_album
\* fail with NoRequestedDataInHtml and yield no Album; a page with a title
\* is resolved, a missing year or type being None and missing art an empty list.
C30_MissingTitleFatal ==
    p_pc \in {"returned", "raised"} /\ ~p_page["ooops"] =>
        IF ~p_page["title"]
        THEN p_pc = "raised" /\ p_exc = "NoRequestedDataInHtml" /\ p_album = NoAlbum
        ELSE /\ p_pc = "returned"
             /\ p_album.year = (IF p_page["year"] THEN "year" ELSE NoneStr)
             /\ p_album.type = (IF p_page["type"] THEN "type" ELSE NoneStr)
             /\ p_album.art = (IF p_page["art"] THEN <<"art">> ELSE <<>>)

\* C31: for an album url with slug s download_many resolves the album s and
\* submits one task for each entry of its track_urls, no more and no fewer;
\* a url with a track name is handled as a track, any other as an album.
C31_AlbumOfSlugSubmitted ==
    (variant = "files" /\ url_idx <= Len(urls) /\ url_matches(urls[url_idx])) =>
        LET url == urls[url_idx] IN
        /\ pc = "track" => url.track # ""
        /\ pc \in {"get_album", "submit", "collect"} => url.track = ""
        /\ pc \in {"submit", "collect"} => track_urls = SitePage(url.slug, track_count)
        /\ pc = "collect" =>
              /\ Len(tasks) = Len(track_urls)
              /\ \A i \in 1..Len(tasks) :
                    /\ tasks[i].entry = "_fetch_and_download_track"
                    /\ Url(tasks[i].album_slug, tasks[i].track_name) = track_urls[i]

\* C32: when an exception is on its way out of download_many or
\* download_tracks, the work items already submitted are not cancelled: none
\* is dropped, a queued one leaves the queue only by being started, and the
\* exception reaches the caller only when each of them has run to its end.
C32_SubmittedTasksRunToCompletion ==
    /\ [](pc = "raised" =>
            \A i \in 1..Len(tasks) : tasks[i].pc = "done" /\ tasks[i].result # "none")
    /\ [][exc # "none" =>
            /\ Len(tasks') = Len(tasks)
            /\ \A i \in 1..Len(tasks) :
                  /\ tasks[i].pc = "queued" => tasks'[i].pc # "done"
                  /\ tasks[i].pc = "done" => tasks'[i] = tasks[i]]_vars

\* C32 witness: an exception is on its way out of the call while one work
\* item is running and another is still queued.
C32_ExceptionWithQueuedTask ==
    /\ pc = "shutdown"
    /\ exc # "none"
    /\ Queued(tasks) # {}
    /\ Running(tasks) # {}

\* C33: the download of a track reference (album_slug s, track_name t)
\* fetches the track page ALBUM_BASE_URL/s/t and resolves the owning album
\* from s, for the calls the pool runs and for the one the caller runs itself.
C33_SlugAndNameNotExchanged ==
    variant = "files" =>
        \A t \in {tasks[i] : i \in 1..Len(tasks)} \cup {main_op} :
            (t.entry = "_fetch_and_download_track" /\ t.pc \notin {"queued", "done"}) =>
                /\ TrackPageUrl(FilesParams(t)) = Url(t.album_slug, t.track_name)
                /\ FilesParams(t).album_slug = t.album_slug

\* C34: in download_many the download of a standalone track url is a work
\* item of the pool (so that two of them can be in flight at the same time):
\* whenever such a download is under way, a work item for it is in the pool.
C34_StandaloneTrackIsPoolTask ==
    (variant = "files" /\ main_op.entry = "_fetch_and_download_track") =>
        \E i \in 1..Len(tasks) :
            /\ tasks[i].album_slug = main_op.album_slug
            /\ tasks[i].track_name = main_op.track_name

\* C34, the state the claim calls reachable: under download_many no other
\* download is in flight while a standalone track url is downloaded (this
\* invariant holds, so two standalone downloads are never in flight together).
C34_StandaloneDownloadRunsAlone ==
    (variant = "files" /\ pc = "track") => tasks = <<>>

\* C35: in download_many the expansion of a later album reference is not
\* held up by the track downloads of an earlier one (so that album B can be
\* resolved while a track task of album A is in flight): while a url is
\* left to be looked at, the caller does not wait for an unfinished track task.
C35_ExpansionNotHeldUpByTracks ==
    (variant = "files" /\ pc = "collect" /\ url_idx < Len(urls) /\ sub_idx <= Len(tasks))
        => tasks[sub_idx].pc = "done"

\* C35, the state the claim calls reachable: under download_many every track
\* task of the earlier albums has finished when a url is looked at or an
\* album is resolved (this invariant holds, so no album is resolved while a
\* track task of another is in flight).
C35_NoTaskInFlightOnExpansion ==
    (variant = "files" /\ pc \in {"loop", "get_album", "track"})
        => \A i \in 1..Len(tasks) : tasks[i].pc = "done"

\* C36: the paths download_many yields for one album are those of the tasks
\* that returned, in the order of the album's track_urls (the order the
\* tasks were submitted in) whatever order they finish in, and a path is
\* yielded only when its own task has finished.
C36_PathsInTrackOrder ==
    /\ []((variant = "files" /\ pc = "collect") =>
            LET seen == SubSeq(tasks, 1, sub_idx - 1)
                ok == SelectSeq(seen, LAMBDA t : t.result = "ok")
            IN /\ Len(tasks) = Len(track_urls)
               /\ \A i \in 1..Len(tasks) :
                     Url(tasks[i].album_slug, tasks[i].track_name) = track_urls[i]
               /\ \A i \in 1..Len(seen) : seen[i].pc = "done"
               /\ outcomes = [i \in 1..Len(ok) |-> FilesResultPath(ok[i], cacheTable)])
    /\ [][(variant = "files" /\ pc = "collect" /\ yield_count' > yield_count) =>
            /\ tasks[sub_idx].pc = "done"
            /\ tasks[sub_idx].result = "ok"
            /\ outcomes' = Append(outcomes, FilesResultPath(tasks[sub_idx], cacheTable))]_vars

\* C36 witness: the task of the second track has returned before the task
\* of the first has finished, and no path has been yielded yet.
C36_SecondTaskFinishedFirst ==
    /\ variant = "files"
    /\ pc = "collect"
    /\ Len(tasks) = 2
    /\ tasks[1].pc \notin {"queued", "done"}
    /\ tasks[2].pc = "done" /\ tasks[2].result = "ok"
    /\ outcomes = <<>>

\* C37: the file of a track reference lies inside download_path/<album_slug>:
\* for every track name parse_khinsider_url accepts, the path made of the
\* name after its two unquote passes begins with the download root and the
\* album directory and has no component that leads out of it (names that
\* leave no file name, as '.' and '..', are set aside: no file is written).
C37_FileInsideAlbumDirectory ==
    ( /\ u_pc = "file_path"
      /\ u_pair[1] = <<"x">>
      /\ PathParts(u_filename, <<>>) # <<>>
      /\ u_path.parts[Len(u_path.parts)] # <<".", ".">> ) =>
        /\ u_path.root = "path"
        /\ Len(u_path.parts) >= 2
        /\ u_path.parts[1] = u_pair[1]
        /\ \A i \in 2..Len(u_path.parts) : u_path.parts[i] # <<".", ".">>

\* C38: delete_old_cache leaves every entry younger than the lifespan as it
\* is: the entry is in the table after the sweep with the value and the
\* insertion time it had, and get_cached_object returns for its key what it
\* returned before.
C38_SweepKeepsYoungEntries ==
    [][cm_ret'.op = "delete_old_cache" =>
         \A k \in DOMAIN cm_table :
            cm_now - cm_table[k].time < cm_lifespan =>
               /\ k \in DOMAIN cm_table'
               /\ cm_table'[k] = cm_table[k]
               /\ GetCachedObject(cm_table', k) = GetCachedObject(cm_table, k)]_vars

\* C38 witness: a sweep has run and the table holds an entry that was put
\* some hours before it and is younger than the lifespan.
C38_YoungEntryAfterSweep ==
    /\ cm_ret.op = "delete_old_cache"
    /\ \E k \in DOMAIN cm_table :
          /\ cm_now - cm_table[k].time > 0
          /\ cm_now - cm_table[k].time < cm_lifespan

\* C39: a call of a function wrapped by decorators.cache that finds an entry
\* stored for its call signature is served that entry's value, whatever the
\* value is (a falsy one as much as an object), and does not invoke the
\* wrapped function.
C39_StoredValueServedWhateverItIs ==
    [][\A w \in Workers :
          LET key == get_object_md5(MemoSignature(mc[w].arg)) IN
          (mc[w].pc = "lookup" /\ mc'[w].pc # "lookup" /\ key \in DOMAIN cm_table) =>
              /\ mc'[w].pc = "idle"
              /\ mc'[w].result = cm_table[key].obj
              /\ m_invoked' = m_invoked]_vars

====
